---- MODULE Spec2Model ----
(***************************************************************************)
(* A model of the energy-balance engine of poplar: the IdealStorage        *)
(* state-of-charge model (storage.py), the auction helpers (econ.py) and   *)
(* the Gateway settlement step (devices.py).                               *)
(*                                                                         *)
(* Energies are integers (Wh).  Hour counters and ratios are exact         *)
(* rationals <<n, d>> with d > 0 in lowest terms.                          *)
(***************************************************************************)
EXTENDS Integers, Sequences, FiniteSets, TLC

(***************************************************************************)
(* Bounds of the model.                                                    *)
(***************************************************************************)
MaxCap == 3
MaxPower == 3
MaxHours == 2
MaxCalls == 3

\* IdealStorage(100) of the doctest and of unit_test
DocCapacity == 100

(***************************************************************************)
(* Exact arithmetic.                                                       *)
(***************************************************************************)
Abs(x) == IF x < 0 THEN -x ELSE x

Min(a, b) == IF a <= b THEN a ELSE b

RECURSIVE GCD(_, _)
GCD(a, b) == IF b = 0 THEN a ELSE GCD(b, a % b)

\* the rational n/d (d # 0) in lowest terms with a positive denominator
Rat(n, d) ==
    LET g == GCD(Abs(n), Abs(d))
        s == IF d < 0 THEN -1 ELSE 1
    IN  <<(s * n) \div g, (s * d) \div g>>

RInt(n) == <<n, 1>>

RAdd(x, y) == Rat(x[1] * y[2] + y[1] * x[2], x[2] * y[2])

RSub(x, y) == Rat(x[1] * y[2] - y[1] * x[2], x[2] * y[2])

RMul(x, y) == Rat(x[1] * y[1], x[2] * y[2])

RLeq(x, y) == x[1] * y[2] <= y[1] * x[2]

RLess(x, y) == x[1] * y[2] < y[1] * x[2]

\* Python's None
None == [none |-> TRUE]

(***************************************************************************)
(* State.                                                                  *)
(***************************************************************************)
VARIABLES
    \* an IdealStorage driven on its own
    stor,       \* the IdealStorage object
    pre,        \* the object as it was before the last power_io call
    arg,        \* the last call: [power, hours, energy, radd]
    ret,        \* what the last call returned
    calls,      \* the requested energies of all calls so far, in order
    hist,       \* sums over all calls so far (history)
    \* the auction helpers applied to a collection of nodes
    nodes,      \* the nodes iterated, with what their bid() and offer() return
    req,        \* the bid low_offer was last called for
    ranked,     \* what rank_bids last returned
    chosen,     \* what low_offer last returned
    op,         \* the helper last called
    \* a network of Gateways and devices stepped by update_time and calc
    net,        \* the objects: class, parent, iteration order, attributes
    world,      \* what the objects and the environment hold
    prev,       \* world as it was when the last calc began
    pc          \* "idle", "ready" (time updated), "settled" or "failed"

storage_vars == <<stor, pre, arg, ret, calls, hist>>

auction_vars == <<nodes, req, ranked, chosen, op>>

network_vars == <<net, world, prev, pc>>

vars == <<storage_vars, auction_vars, network_vars>>

(***************************************************************************)
(* IdealStorage (storage.py).                                              *)
(***************************************************************************)
\* IdealStorage.__init__: starts full, every counter zero
IdealStorage(i_capacity) ==
    [ nominal_capacity |-> i_capacity,
      state            |-> i_capacity,
      throughput       |-> 0,
      surplus          |-> 0,
      drained_hours    |-> RInt(0),
      full_hours       |-> RInt(0),
      shortfall        |-> 0,
      loss_occurence   |-> 0 ]

\* IdealStorage.soc
soc(s) == Rat(s.state, s.nominal_capacity)

\* charge without the clamp to the free capacity
charge_unclamped(s, energy, hours) ==
    LET s1 == [s EXCEPT !.state = @ + energy]
    IN  [s |-> [s1 EXCEPT !.throughput = @ + energy], e_delta |-> energy]

\* charge counting the requested energy, not the stored energy, as throughput
charge_throughput_requested(s, energy, hours) ==
    LET max_in  == s.nominal_capacity - s.state
        e_delta == Min(energy, max_in)
        surplus == energy - e_delta
        active_time == RMul(Rat(surplus, energy), RInt(hours))
        s1 == [s EXCEPT !.state = @ + e_delta]
        s2 == IF e_delta # energy
              THEN [s1 EXCEPT !.surplus = @ + surplus,
                              !.full_hours = RAdd(@, RSub(RInt(hours), active_time))]
              ELSE s1
    IN  [s |-> [s2 EXCEPT !.throughput = @ + energy], e_delta |-> e_delta]

\* the branch `if energy > 0` of power_io; yields the object and e_delta
charge(s, energy, hours) ==
    LET max_in  == s.nominal_capacity - s.state
        e_delta == Min(energy, max_in)
        surplus == energy - e_delta
        active_time == RMul(Rat(surplus, energy), RInt(hours))
        s1 == [s EXCEPT !.state = @ + e_delta]
        s2 == IF e_delta # energy
              THEN [s1 EXCEPT !.surplus = @ + surplus,
                              !.full_hours = RAdd(@, RSub(RInt(hours), active_time))]
              ELSE s1
    IN  [s |-> [s2 EXCEPT !.throughput = @ + e_delta], e_delta |-> e_delta]

\* discharge that forgets to lower state
discharge_state_kept(s, energy, hours) ==
    LET max_out == s.state
        e_delta == - Min(-energy, max_out)
        shortfall == max_out + energy
        shortfall_time == RMul(Rat(shortfall, energy), RInt(hours))
        s2 == IF e_delta # energy
              THEN [s EXCEPT !.shortfall = @ + shortfall,
                             !.drained_hours = RAdd(@, shortfall_time),
                             !.loss_occurence = @ + 1]
              ELSE s
    IN  [s |-> s2, e_delta |-> e_delta]

\* discharge that books the whole request, not the unmet part, as shortfall
discharge_shortfall_requested(s, energy, hours) ==
    LET max_out == s.state
        e_delta == - Min(-energy, max_out)
        shortfall == energy
        shortfall_time == RMul(Rat(max_out + energy, energy), RInt(hours))
        s1 == [s EXCEPT !.state = @ + e_delta]
        s2 == IF e_delta # energy
              THEN [s1 EXCEPT !.shortfall = @ + shortfall,
                              !.drained_hours = RAdd(@, shortfall_time),
                              !.loss_occurence = @ + 1]
              ELSE s1
    IN  [s |-> s2, e_delta |-> e_delta]

\* discharge that counts an occurence whenever the storage ends at the floor
discharge_loss_at_floor(s, energy, hours) ==
    LET max_out == s.state
        e_delta == - Min(-energy, max_out)
        shortfall == max_out + energy
        shortfall_time == RMul(Rat(shortfall, energy), RInt(hours))
        s1 == [s EXCEPT !.state = @ + e_delta]
        s2 == IF e_delta # energy
              THEN [s1 EXCEPT !.shortfall = @ + shortfall,
                              !.drained_hours = RAdd(@, shortfall_time)]
              ELSE s1
        s3 == IF s1.state = 0 THEN [s2 EXCEPT !.loss_occurence = @ + 1] ELSE s2
    IN  [s |-> s3, e_delta |-> e_delta]

\* the branch `if energy < 0` of power_io
discharge(s, energy, hours) ==
    LET max_out == s.state
        e_delta == - Min(-energy, max_out)
        shortfall == max_out + energy
        shortfall_time == RMul(Rat(shortfall, energy), RInt(hours))
        s1 == [s EXCEPT !.state = @ + e_delta]
        s2 == IF e_delta # energy
              THEN [s1 EXCEPT !.shortfall = @ + shortfall,
                              !.drained_hours = RAdd(@, shortfall_time),
                              !.loss_occurence = @ + 1]
              ELSE s1
    IN  [s |-> s2, e_delta |-> e_delta]

\* idle that counts a full hour whenever the storage is not empty
idle_full_when_not_empty(s, hours) ==
    LET s1 == IF s.state = 0
              THEN [s EXCEPT !.drained_hours = RAdd(@, RInt(hours))]
              ELSE s
        s2 == IF s.state # 0
              THEN [s1 EXCEPT !.full_hours = RAdd(@, RInt(hours))]
              ELSE s1
    IN  [s |-> s2, e_delta |-> 0]

\* the branch `if energy == 0` of power_io
idle(s, hours) ==
    LET s1 == IF s.state = 0
              THEN [s EXCEPT !.drained_hours = RAdd(@, RInt(hours))]
              ELSE s
        s2 == IF s.state = s.nominal_capacity
              THEN [s1 EXCEPT !.full_hours = RAdd(@, RInt(hours))]
              ELSE s1
    IN  [s |-> s2, e_delta |-> 0]

\* requested minus delivered
power_io_result_unmet(e_delta, energy) == energy - e_delta

\* the value power_io returns
power_io_result(e_delta, energy) == e_delta - energy

\* IdealStorage.power_io: yields the object, the return value and e_delta
power_io(s, power, hours) ==
    LET energy == power * hours
        r == IF energy > 0 THEN charge(s, energy, hours)
             ELSE IF energy < 0 THEN discharge(s, energy, hours)
             ELSE idle(s, hours)
    IN  [s |-> r.s, ret |-> power_io_result(r.e_delta, energy), e_delta |-> r.e_delta]

(***************************************************************************)
(* The storage driven alone: any sequence of power_io and x + s calls.     *)
(***************************************************************************)
Capacities == (1..MaxCap) \cup {DocCapacity}

\* powers tried on a storage: all small ones, and for the documented
\* IdealStorage(100) the values its doctest, unit test and round trip use
Powers(cap) ==
    IF cap = DocCapacity
    THEN {-150, -110, -100, -10, 10, 90, 100}
    ELSE (-MaxPower)..MaxPower

Hours(cap) == IF cap = DocCapacity THEN {1} ELSE 0..MaxHours

NoArg == [power |-> 0, hours |-> 0, energy |-> 0, radd |-> FALSE]

\* moved_in, moved_out: energy that entered, left the storage (magnitudes);
\* unmet: requested minus transferred, signed; unmet_abs: its magnitude
NoHist == [moved_in |-> 0, moved_out |-> 0, unmet |-> 0, unmet_abs |-> 0]

\* one call power_io(power, hours), by x + s when radd (hours defaults to 1)
Call(power, hours, radd) ==
    LET r == power_io(stor, power, hours)
        energy == power * hours
        moved == r.s.state - stor.state
    IN  /\ Len(calls) < MaxCalls
        /\ stor' = r.s
        /\ pre' = stor
        /\ arg' = [power |-> power, hours |-> hours, energy |-> energy, radd |-> radd]
        /\ ret' = r.ret
        /\ calls' = Append(calls, energy)
        /\ UNCHANGED <<auction_vars, network_vars>>
        /\ hist' = [ moved_in  |-> hist.moved_in + (IF moved > 0 THEN moved ELSE 0),
                     moved_out |-> hist.moved_out + (IF moved < 0 THEN -moved ELSE 0),
                     unmet     |-> hist.unmet + (energy - moved),
                     unmet_abs |-> hist.unmet_abs + Abs(energy - moved) ]

PowerIO ==
    \E power \in Powers(stor.nominal_capacity), hours \in Hours(stor.nominal_capacity) :
        Call(power, hours, FALSE)

\* IdealStorage.__radd__
Radd ==
    \E x \in Powers(stor.nominal_capacity) : Call(x, 1, TRUE)

StorageNext == PowerIO \/ Radd

(***************************************************************************)
(* Bids, offers and the auction helpers (econ.py).                         *)
(***************************************************************************)
\* Bid.__init__
Bid(obj_id, wh, value) ==
    [obj_id |-> obj_id, value |-> value, wh |-> wh, storage |-> FALSE]

\* Offer.__init__
Offer(obj_id, wh, value) ==
    [obj_id |-> obj_id, value |-> value, wh |-> wh, storage |-> FALSE]

\* b.storage = True, o.storage = True
MarkStorage(bid_or_offer) == [bid_or_offer EXCEPT !.storage = TRUE]

\* hasattr(node, 'bid'): Load and IdealStorage define bid
has_bid(node) == node.kind \in {"Load", "IdealStorage"}

\* hasattr(node, 'offer'): Source and IdealStorage define offer
has_offer(node) == node.kind \in {"Source", "IdealStorage"}

\* the loop of rank_bids: the bids of the nodes, in iteration order
RECURSIVE collect_bids(_)
collect_bids(ns) ==
    IF ns = << >> THEN << >>
    ELSE LET node == Head(ns)
             rest == collect_bids(Tail(ns))
         IN  IF has_bid(node) /\ node.bid # None
             THEN <<node.bid>> \o rest
             ELSE rest

\* one bid put into a list sorted high to low, ahead of the bids of equal value
RECURSIVE insert_bid_before_equals(_, _)
insert_bid_before_equals(sorted, bid) ==
    IF sorted = << >> THEN <<bid>>
    ELSE IF ~RLess(bid.value, Head(sorted).value)
         THEN <<bid>> \o sorted
         ELSE <<Head(sorted)>> \o insert_bid_before_equals(Tail(sorted), bid)

\* one bid put into a list sorted high to low, behind the bids of equal value
RECURSIVE insert_bid(_, _)
insert_bid(sorted, bid) ==
    IF sorted = << >> THEN <<bid>>
    ELSE IF RLess(Head(sorted).value, bid.value)
         THEN <<bid>> \o sorted
         ELSE <<Head(sorted)>> \o insert_bid(Tail(sorted), bid)

\* bids sorted low to high
RECURSIVE sort_bids_ascending(_)
sort_bids_ascending(bids) ==
    IF bids = << >> THEN << >>
    ELSE LET sorted == sort_bids_ascending(Tail(bids))
             lower  == SelectSeq(sorted, LAMBDA b : RLess(b.value, Head(bids).value))
             higher == SelectSeq(sorted, LAMBDA b : ~RLess(b.value, Head(bids).value))
         IN  lower \o <<Head(bids)>> \o higher

\* bids.sort(key=lambda x: x.value, reverse=True): stable, high to low
RECURSIVE sort_bids(_)
sort_bids(bids) ==
    IF bids = << >> THEN << >>
    ELSE insert_bid(sort_bids(SubSeq(bids, 1, Len(bids) - 1)), bids[Len(bids)])

\* rank_bids without the sort: the bids in the order the nodes come in
rank_bids_unsorted(ns) == collect_bids(ns)

\* rank_bids with the lowest bid first
rank_bids_low_first(ns) == sort_bids_ascending(collect_bids(ns))

\* rank_bids
rank_bids(ns) == sort_bids(collect_bids(ns))

\* offer_value = 100., the value an offer has to beat
OFFER_VALUE_START == 100

\* the loop of low_offer
RECURSIVE low_offer_loop(_, _, _, _)
low_offer_loop(ns, bid, low, offer_value) ==
    IF ns = << >> THEN low
    ELSE LET node == Head(ns)
             offer == node.offer
         IN  IF /\ has_offer(node)
                /\ offer # None
                /\ RLess(offer.value, offer_value)
                /\ offer.obj_id # bid.obj_id
                /\ ~(bid.storage /\ offer.storage)
             THEN low_offer_loop(Tail(ns), bid, offer, offer.value)
             ELSE low_offer_loop(Tail(ns), bid, low, offer_value)

\* low_offer, taking no account of the bid coming from storage
low_offer_storage_to_storage(ns, bid) ==
    LET b == IF bid = None THEN Bid(0, 0, RInt(0)) ELSE [bid EXCEPT !.storage = FALSE]
    IN  low_offer_loop(ns, b, None, RInt(OFFER_VALUE_START))

\* low_offer; ns carries what each node's offer(bid.obj_id) returns
low_offer(ns, bid) ==
    LET b == IF bid = None THEN Bid(0, 0, RInt(0)) ELSE bid
    IN  low_offer_loop(ns, b, None, RInt(OFFER_VALUE_START))

(***************************************************************************)
(* The helpers applied to any small collection of nodes.  A node is given  *)
(* by its class and by what its bid() and offer(dest) return.              *)
(***************************************************************************)
MaxNodes == 3

\* per_kwh of the loads, buy of storage (0.00001 by default, 0.095 in case2a)
LoadValues == {Rat(7, 100), Rat(9, 100)}

StorageBuyValues == {Rat(1, 100000), Rat(9, 100)}

\* sell_kwh: 0 for a Source, cost_kwh = 4.5/35 for storage; and prices that
\* do not beat the starting offer_value
SourceSellValues == {RInt(0), RInt(OFFER_VALUE_START)}

StorageSellValues == {Rat(9, 70), RInt(OFFER_VALUE_START + 50)}

NodeViews(id) ==
    [kind : {"Gateway"}, id : {id}, bid : {None}, offer : {None}]
    \cup
    [kind : {"Load"}, id : {id},
     bid : {None} \cup {Bid(id, -1, v) : v \in LoadValues},
     offer : {None}]
    \cup
    [kind : {"Source"}, id : {id}, bid : {None},
     offer : {None} \cup {Offer(id, 1, v) : v \in SourceSellValues}]
    \cup
    [kind : {"IdealStorage"}, id : {id},
     bid : {None} \cup {MarkStorage(Bid(id, -1, v)) : v \in StorageBuyValues},
     offer : {None} \cup {MarkStorage(Offer(id, 1, v)) : v \in StorageSellValues}]

NodeLists ==
    UNION { { ns \in [1..n -> UNION {NodeViews(i) : i \in 1..n}] :
                \A i \in 1..n : ns[i].id = i } : n \in 1..MaxNodes }

\* bids = rank_bids(self.network)
RankBids ==
    /\ ranked' = rank_bids(nodes)
    /\ op' = "rank_bids"
    /\ UNCHANGED <<nodes, req, chosen>>
    /\ UNCHANGED <<storage_vars, network_vars>>

\* offer = low_offer(self.network, bid), for the bid of one of the nodes
LowOffer ==
    \E i \in 1..Len(nodes) :
        /\ has_bid(nodes[i])
        /\ nodes[i].bid # None
        /\ req' = nodes[i].bid
        /\ chosen' = low_offer(nodes, nodes[i].bid)
        /\ op' = "low_offer"
        /\ UNCHANGED <<nodes, ranked>>
        /\ UNCHANGED <<storage_vars, network_vars>>

AuctionNext == RankBids \/ LowOffer

(***************************************************************************)
(* The network of devices (devices.py, loads.py, sources.py, storage.py).  *)
(* Objects are numbered 1..n; net.kind gives the class, net.parent the     *)
(* object whose children list holds it (0 for the root Gateway), and       *)
(* net.order the order in which iterating self.network yields the nodes.   *)
(* Dictionaries keyed by timestamp are functions on the keys present.      *)
(***************************************************************************)
EmptyDict == << >>

Put(dict, key, value) ==
    [k \in (DOMAIN dict) \cup {key} |-> IF k = key THEN value ELSE dict[k]]

\* dict.setdefault(key, default), read only
Get(dict, key, default) == IF key \in DOMAIN dict THEN dict[key] ELSE default

RECURSIVE Sum(_, _)
Sum(f, S) ==
    IF S = {} THEN 0
    ELSE LET x == CHOOSE y \in S : TRUE IN f[x] + Sum(f, S \ {x})

RECURSIVE RSum(_, _)
RSum(f, S) ==
    IF S = {} THEN RInt(0)
    ELSE LET x == CHOOSE y \in S : TRUE IN RAdd(f[x], RSum(f, S \ {x}))

RECURSIVE Reverse(_)
Reverse(s) == IF s = << >> THEN << >> ELSE Reverse(Tail(s)) \o <<Head(s)>>

Nodes == DOMAIN net.kind

IsGateway(n) == net.kind[n] = "Gateway"

IsLoad(n) == net.kind[n] = "Load"

IsSource(n) == net.kind[n] = "Source"

IsStorage(n) == net.kind[n] = "IdealStorage"

GatewayNodes == {n \in Nodes : IsGateway(n)}

LoadNodes == {n \in Nodes : IsLoad(n)}

SourceNodes == {n \in Nodes : IsSource(n)}

StorageNodes == {n \in Nodes : IsStorage(n)}

\* self.children
children(g) == {n \in Nodes : net.parent[n] = g}

\* the chain n, parent of n, ..., root
RECURSIVE ancestors(_)
ancestors(n) ==
    IF net.parent[n] = 0 THEN <<n>> ELSE <<n>> \o ancestors(net.parent[n])

\* Model.path: nx.shortest_path(self.network, self, node), in a tree
path(self, node) ==
    LET up   == ancestors(self)
        down == ancestors(node)
        i    == CHOOSE i \in 1..Len(up) :
                    /\ \E j \in 1..Len(down) : down[j] = up[i]
                    /\ \A k \in 1..(i - 1) : \A j \in 1..Len(down) : down[j] # up[k]
        j    == CHOOSE j \in 1..Len(down) : down[j] = up[i]
    IN  SubSeq(up, 1, i) \o Reverse(SubSeq(down, 1, j - 1))

\* Device.connected_domains
connected_domains == SelectSeq(net.order, IsGateway)

\* Device.dest_gateway: the last Gateway on the path from self to the node
\* (0 stands for the KeyError raised when there is none)
dest_gateway(self, obj_id) ==
    LET gs == SelectSeq(path(self, obj_id), IsGateway)
    IN  IF gs = << >> THEN 0 ELSE gs[Len(gs)]

\* Device.src_gateway: the first Gateway on the path from self to the node
src_gateway(self, obj_id) ==
    LET gs == SelectSeq(path(self, obj_id), IsGateway)
    IN  IF gs = << >> THEN 0 ELSE gs[1]

\* Gateway.export(), read
export(w, g) == w.gw[g].export_power

\* FLA.cost_kwh = cost_kg / life = 4.5 / 35.
FLA_cost_kwh == Rat(45, 350)

\* Load.needsenergy: balance[env.time]
Load_needsenergy(w, n) == w.ld[n].balance[w.time]

\* Source.hasenergy: energy(), balance[env.time]
Source_hasenergy(w, n) == w.src[n].balance[w.time]

\* IdealStorage.hasenergy
IdealStorage_hasenergy(w, n) == w.stg[n].state

\* IdealStorage.needsenergy
IdealStorage_needsenergy(w, n) == w.stg[n].state - w.stg[n].nominal_capacity

\* node.needsenergy() of a device (Source.needsenergy is 0.)
needsenergy(w, n) ==
    IF IsLoad(n) THEN Load_needsenergy(w, n)
    ELSE IF IsStorage(n) THEN IdealStorage_needsenergy(w, n)
    ELSE 0

\* node.hasenergy() of a device that has the method (Source, IdealStorage)
hasenergy(w, n) ==
    IF IsSource(n) THEN Source_hasenergy(w, n)
    ELSE IF IsStorage(n) THEN IdealStorage_hasenergy(w, n)
    ELSE 0

\* node.droopable() of a device: Load.droop_ratio, 0. for a Source, 1. for
\* storage
droopable(n) ==
    IF IsLoad(n) THEN net.droop_ratio[n]
    ELSE IF IsStorage(n) THEN RInt(1)
    ELSE RInt(0)

\* node.curtailment_ratio() of a device: 1.0 for a Source, 0. for storage
curtailment_ratio(n) == IF IsSource(n) THEN RInt(1) ELSE RInt(0)

\* the children a Gateway sums needsenergy over: hasattr(i, 'needsenergy')
\* and type(i) is not Gateway
needing_children(g) == {n \in children(g) : ~IsGateway(n)}

\* the children a Gateway sums hasenergy over: hasattr(i, 'hasenergy') and
\* type(i) is not Gateway (a Load has no hasenergy)
having_children(g) == {n \in children(g) : IsSource(n) \/ IsStorage(n)}

\* Gateway.needsenergy
Gateway_needsenergy(w, g) ==
    Sum([n \in needing_children(g) |-> needsenergy(w, n)], needing_children(g))

\* Gateway.hasenergy
Gateway_hasenergy(w, g) ==
    Sum([n \in having_children(g) |-> hasenergy(w, n)], having_children(g))

\* Gateway.droopable, as the plain mean of the children's droop ratios
Gateway_droopable_unweighted(w, g) ==
    LET S == needing_children(g)
        d == RSum([n \in S |-> droopable(n)], S)
        e == Sum([n \in S |-> needsenergy(w, n)], S)
    IN  IF e # 0 THEN RMul(d, Rat(1, Cardinality(S))) ELSE RInt(0)

\* Gateway.droopable: the need-weighted mean droop ratio, 0. when e is 0
Gateway_droopable(w, g) ==
    LET S == needing_children(g)
        d == RSum([n \in S |-> RMul(RInt(needsenergy(w, n)), droopable(n))], S)
        e == Sum([n \in S |-> needsenergy(w, n)], S)
    IN  IF e # 0 THEN RMul(d, Rat(1, e)) ELSE RInt(0)

\* Gateway.curtailment_ratio: the energy-weighted mean ratio, 0. when e is 0
Gateway_curtailment_ratio(w, g) ==
    LET S == having_children(g)
        c == RSum([n \in S |-> RMul(RInt(hasenergy(w, n)), curtailment_ratio(n))], S)
        e == Sum([n \in S |-> hasenergy(w, n)], S)
    IN  IF e # 0 THEN RMul(c, Rat(1, e)) ELSE RInt(0)

\* Load.bid
Load_bid(w, n) ==
    LET e == Load_needsenergy(w, n)
    IN  IF e # 0 THEN Bid(n, e, net.per_kwh[n]) ELSE None

\* IdealStorage.bid
IdealStorage_bid(w, n) ==
    LET e == IdealStorage_needsenergy(w, n)
    IN  IF e # 0 THEN MarkStorage(Bid(n, e, net.buy[n])) ELSE None

\* Source.offer made of what was generated, not of what is left
Source_offer_generation(w, n, dest_id) ==
    LET e == Get(w.src[n].generation, w.time, 0)
    IN  IF e # 0 THEN Offer(n, e, RInt(0)) ELSE None

\* Source.offer that serves loads only
Source_offer_loads_only(w, n, dest_id) ==
    LET e == Source_hasenergy(w, n)
    IN  IF e # 0 /\ IsLoad(dest_id) THEN Offer(n, e, RInt(0)) ELSE None

\* Source.offer: whatever the destination
Source_offer(w, n, dest_id) ==
    LET e == Source_hasenergy(w, n)
    IN  IF e # 0 THEN Offer(n, e, RInt(0)) ELSE None

\* IdealStorage.offer
IdealStorage_offer(w, n, dest_id) ==
    IF dest_id = n THEN None
    ELSE IF /\ src_gateway(n, dest_id) # dest_gateway(n, dest_id)
            /\ \E i \in 1..Len(path(n, dest_id)) :
                   /\ IsGateway(path(n, dest_id)[i])
                   /\ ~export(w, path(n, dest_id)[i])
         THEN None
    ELSE LET v == IdealStorage_hasenergy(w, n)
         IN  IF v # 0 THEN MarkStorage(Offer(n, v, FLA_cost_kwh)) ELSE None

\* node.bid() of the nodes that define it
node_bid(w, n) ==
    IF IsLoad(n) THEN Load_bid(w, n)
    ELSE IF IsStorage(n) THEN IdealStorage_bid(w, n)
    ELSE None

\* node.offer(dest_id) of the nodes that define it
node_offer(w, n, dest_id) ==
    IF IsSource(n) THEN Source_offer(w, n, dest_id)
    ELSE IF IsStorage(n) THEN IdealStorage_offer(w, n, dest_id)
    ELSE None

\* the network as rank_bids iterates it
bidding_network(w) ==
    [i \in 1..Len(net.order) |->
        [kind |-> net.kind[net.order[i]], id |-> net.order[i],
         bid |-> node_bid(w, net.order[i]), offer |-> None]]

\* the network as low_offer iterates it for a bid of dest_id
offering_network(w, dest_id) ==
    [i \in 1..Len(net.order) |->
        [kind |-> net.kind[net.order[i]], id |-> net.order[i],
         bid |-> None, offer |-> node_offer(w, net.order[i], dest_id)]]

\* the first Load.needsenergy of a timestamp: balance[key] and dmnd[key]
\* are set to demand(key), which the load's profile gives
Load_query(w, n) ==
    IF w.time \in DOMAIN w.ld[n].balance THEN w
    ELSE [w EXCEPT !.ld[n].balance = Put(@, w.time, w.inp.demand[n]),
                   !.ld[n].dmnd = Put(@, w.time, w.inp.demand[n])]

\* the first Source.energy of a timestamp: balance[key] and generation[key]
\* are set to output(), which the plant gives
Source_energy(w, n) ==
    IF w.time \in DOMAIN w.src[n].balance THEN w
    ELSE [w EXCEPT !.src[n].balance = Put(@, w.time, w.inp.output[n]),
                   !.src[n].generation = Put(@, w.time, w.inp.output[n])]

RECURSIVE query_devices(_, _)
query_devices(w, S) ==
    IF S = {} THEN w
    ELSE LET n == CHOOSE x \in S : TRUE
             w1 == IF IsLoad(n) THEN Load_query(w, n)
                   ELSE IF IsSource(n) THEN Source_energy(w, n)
                   ELSE w
         IN  query_devices(w1, S \ {n})

\* Load.power_io
Load_power_io(w, n, energy) ==
    [w EXCEPT !.ld[n].balance[w.time] = @ + energy]

\* Source.power_io, recording the debit but leaving the balance as it was
Source_power_io_keeps_balance(w, n, energy) ==
    IF Abs(energy) > w.src[n].balance[w.time]
    THEN [w EXCEPT !.err = "PV over commited"]
    ELSE [w EXCEPT !.src[n].debits = Put(@, w.time, Get(@, w.time, 0) + energy)]

\* Source.power_io that hands over what is left when asked for more
Source_power_io_clamped(w, n, energy) ==
    LET e == IF Abs(energy) > w.src[n].balance[w.time]
             THEN -w.src[n].balance[w.time] ELSE energy
    IN  [w EXCEPT !.src[n].balance[w.time] = @ + e,
                  !.src[n].debits = Put(@, w.time, Get(@, w.time, 0) + e)]

\* Source.power_io: raises when asked for more than the balance holds
Source_power_io(w, n, energy) ==
    IF Abs(energy) > w.src[n].balance[w.time]
    THEN [w EXCEPT !.err = "PV over commited"]
    ELSE [w EXCEPT !.src[n].balance[w.time] = @ + energy,
                   !.src[n].debits = Put(@, w.time, Get(@, w.time, 0) + energy)]

\* discharge that books the energy as shortfall but leaves the state of charge
IdealStorage_power_io_state_kept(w, n, energy) ==
    [w EXCEPT !.stg[n] = [power_io(@, energy, 1).s EXCEPT !.state = w.stg[n].state]]

\* IdealStorage.power_io(energy), hours at its default of 1.
IdealStorage_power_io(w, n, energy) ==
    [w EXCEPT !.stg[n] = power_io(@, energy, 1).s]

\* node.power_io(energy) of a device
device_power_io(w, n, energy) ==
    IF IsLoad(n) THEN Load_power_io(w, n, energy)
    ELSE IF IsSource(n) THEN Source_power_io(w, n, energy)
    ELSE IF IsStorage(n) THEN IdealStorage_power_io(w, n, energy)
    ELSE [w EXCEPT !.err = "AttributeError"]

\* the record of one transaction, naming the bidder as where it came from
Transfer_from_dest(source, dest, delta, gateway, source_domain) ==
    [source |-> dest, dest |-> dest, delta |-> delta,
     gateway |-> gateway, source_domain |-> source_domain]

\* the record of one transaction, as logged at its end (history)
Transfer(source, dest, delta, gateway, source_domain) ==
    [source |-> source, dest |-> dest, delta |-> delta,
     gateway |-> gateway, source_domain |-> source_domain]

\* Gateway.transaction, moving the whole of the offer
transaction_whole_offer(w, self, offer, bid) ==
    LET key   == w.time
        dest  == bid.obj_id
        delta == offer.wh
        w1 == device_power_io(w, dest, delta)
        w2 == [w1 EXCEPT !.gw[self].balance[key] = RAdd(@, RInt(delta)),
                         !.gw[self].credits[key] = @ + delta]
        source == offer.obj_id
        w3 == device_power_io(w2, source, -delta)
        source_domain == dest_gateway(self, source)
    IN  IF w3.err # "" THEN w3
        ELSE [w3 EXCEPT !.gw[source_domain].debits[key] = @ - delta,
                        !.gw[source_domain].balance[key] = RSub(@, RInt(delta)),
                        !.txlog = Append(@, Transfer(source, dest, delta, self, source_domain))]

\* Gateway.transaction moving no more than 1 Wh at a time
transaction_one_wh(w, self, offer, bid) ==
    LET key   == w.time
        dest  == bid.obj_id
        delta == Min(1, Min(Abs(needsenergy(w, dest)), offer.wh))
        w1 == device_power_io(w, dest, delta)
        w2 == [w1 EXCEPT !.gw[self].balance[key] = RAdd(@, RInt(delta)),
                         !.gw[self].credits[key] = @ + delta]
        source == offer.obj_id
        w3 == device_power_io(w2, source, -delta)
        source_domain == dest_gateway(self, source)
    IN  IF w3.err # "" THEN w3
        ELSE [w3 EXCEPT !.gw[source_domain].debits[key] = @ - delta,
                        !.gw[source_domain].balance[key] = RSub(@, RInt(delta)),
                        !.txlog = Append(@, Transfer(source, dest, delta, self, source_domain))]

\* Gateway.transaction that leaves the debits of the offering side alone
transaction_debit_uncounted(w, self, offer, bid) ==
    LET key   == w.time
        dest  == bid.obj_id
        delta == Min(Abs(needsenergy(w, dest)), offer.wh)
        w1 == device_power_io(w, dest, delta)
        w2 == [w1 EXCEPT !.gw[self].balance[key] = RAdd(@, RInt(delta)),
                         !.gw[self].credits[key] = @ + delta]
        source == offer.obj_id
        w3 == device_power_io(w2, source, -delta)
        source_domain == dest_gateway(self, source)
    IN  IF w3.err # "" THEN w3
        ELSE [w3 EXCEPT !.gw[source_domain].balance[key] = RSub(@, RInt(delta)),
                        !.txlog = Append(@, Transfer(source, dest, delta, self, source_domain))]

\* Gateway.transaction: delta goes to the bidder, then leaves the offering
\* device; the bidder's Gateway is credited, the offering device's debited
transaction(w, self, offer, bid) ==
    LET key   == w.time
        dest  == bid.obj_id
        delta == Min(Abs(needsenergy(w, dest)), offer.wh)
        w1 == device_power_io(w, dest, delta)
        w2 == [w1 EXCEPT !.gw[self].balance[key] = RAdd(@, RInt(delta)),
                         !.gw[self].credits[key] = @ + delta]
        source == offer.obj_id
        w3 == device_power_io(w2, source, -delta)
        source_domain == dest_gateway(self, source)
    IN  IF w3.err # "" THEN w3
        ELSE [w3 EXCEPT !.gw[source_domain].debits[key] = @ - delta,
                        !.gw[source_domain].balance[key] = RSub(@, RInt(delta)),
                        !.txlog = Append(@, Transfer(source, dest, delta, self, source_domain))]

\* one turn of the while loop of get_energy (history): the offers the nodes
\* made, the one taken, and what the two devices held before and after
Turn(w, w1, self, bid, offer) ==
    [kind |-> "take", gateway |-> self, bid |-> bid, offer |-> offer,
     offers |-> offering_network(w, bid.obj_id),
     need |-> needsenergy(w, bid.obj_id),
     need_after |-> needsenergy(w1, bid.obj_id),
     has |-> hasenergy(w, offer.obj_id),
     has_after |-> hasenergy(w1, offer.obj_id)]

\* the end of the while loop of get_energy (history)
Stop(w, self, bid) ==
    [kind |-> "stop", gateway |-> self, bid |-> bid, offer |-> None,
     offers |-> offering_network(w, bid.obj_id),
     need |-> needsenergy(w, bid.obj_id),
     need_after |-> needsenergy(w, bid.obj_id),
     has |-> 0, has_after |-> 0]

\* the while loop of get_energy
RECURSIVE get_energy_loop(_, _, _)
get_energy_loop(w, self, bid) ==
    LET offer == low_offer(offering_network(w, bid.obj_id), bid)
    IN  IF w.err = "" /\ offer # None /\ needsenergy(w, bid.obj_id) # 0
        THEN LET w1 == transaction(w, self, offer, bid)
             IN  get_energy_loop(
                     [w1 EXCEPT !.trace = Append(@, Turn(w, w1, self, bid, offer))],
                     self, bid)
        ELSE IF w.err = "" THEN [w EXCEPT !.trace = Append(@, Stop(w, self, bid))]
        ELSE w

\* the shortage accounting of get_energy, counting storage bids as well
account_shortage_storage_too(w, self, bid, initial_demand) ==
    LET key  == w.time
        node == bid.obj_id
    IN  IF needsenergy(w, node) # 0
        THEN LET w1 == [w EXCEPT !.gw[self].outage = Put(@, key, 1),
                                 !.gw[self].shortfall = @ + needsenergy(w, node)]
                 step == RInt(w.gw[self].timestep)
             IN  IF initial_demand[1] = 0
                 THEN [w1 EXCEPT !.err = "ZeroDivisionError"]
                 ELSE [w1 EXCEPT !.gw[self].lolh = RAdd(@, step)]
        ELSE w

\* the shortage accounting of get_energy, with an outage but no lolh
account_shortage_no_lolh(w, self, bid, initial_demand) ==
    LET key  == w.time
        node == bid.obj_id
    IN  IF needsenergy(w, node) # 0 /\ ~bid.storage
        THEN [w EXCEPT !.gw[self].outage = Put(@, key, 1),
                       !.gw[self].shortfall = @ + needsenergy(w, node)]
        ELSE w

\* the shortage accounting of get_energy, with shortfall holding the last
\* unmet need only
account_shortage_last_only(w, self, bid, initial_demand) ==
    LET key  == w.time
        node == bid.obj_id
    IN  IF needsenergy(w, node) # 0 /\ ~bid.storage
        THEN LET w1 == [w EXCEPT !.gw[self].outage = Put(@, key, 1),
                                 !.gw[self].shortfall = needsenergy(w, node)]
                 step == RInt(w.gw[self].timestep)
             IN  IF initial_demand[1] = 0
                 THEN [w1 EXCEPT !.err = "ZeroDivisionError"]
                 ELSE [w1 EXCEPT !.gw[self].lolh = RAdd(@, step)]
        ELSE w

\* the shortage accounting of get_energy; the division raises when the
\* Gateway's demand of the step is 0
account_shortage(w, self, bid, initial_demand) ==
    LET key  == w.time
        node == bid.obj_id
    IN  IF needsenergy(w, node) # 0 /\ ~bid.storage
        THEN LET w1 == [w EXCEPT !.gw[self].outage = Put(@, key, 1),
                                 !.gw[self].shortfall = @ + needsenergy(w, node)]
                 step == RInt(w.gw[self].timestep)
             IN  IF initial_demand[1] = 0
                 THEN [w1 EXCEPT !.err = "ZeroDivisionError"]
                 ELSE [w1 EXCEPT !.gw[self].lolh =
                          RAdd(@, RSub(step,
                              RMul(RMul(RSub(initial_demand, w.gw[self].demand[key]),
                                        Rat(initial_demand[2], initial_demand[1])),
                                   step)))]
        ELSE w

\* Gateway.get_energy
get_energy(w, self, bid) ==
    LET initial_demand == w.gw[self].demand[w.time]
        w1 == get_energy_loop(w, self, bid)
    IN  IF w1.err # "" THEN w1
        ELSE account_shortage(w1, self, bid, initial_demand)

\* Gateway.surplus: what is left in the balance of the sources next to the
\* Gateway, over all timestamps
Gateway_surplus(w, g) ==
    LET S == {n \in SourceNodes : net.parent[n] = g \/ net.parent[g] = n}
    IN  Sum([n \in S |-> Sum(w.src[n].balance, DOMAIN w.src[n].balance)], S)

\* sum(self.outage.values()), the outages Gateway.__repr__ reports
Gateway_outages(w, g) == Sum(w.gw[g].outage, DOMAIN w.gw[g].outage)

\* every Gateway of the network has the timestamp in time_series and an
\* entry for it in credits, debits, balance and demand
Initialised(w) ==
    \A g \in GatewayNodes :
        /\ \E i \in 1..Len(w.gw[g].time_series) : w.gw[g].time_series[i] = w.time
        /\ w.time \in DOMAIN w.gw[g].credits
        /\ w.time \in DOMAIN w.gw[g].debits
        /\ w.time \in DOMAIN w.gw[g].balance
        /\ w.time \in DOMAIN w.gw[g].demand

\* calc, `# init`, reaching only the first Gateway
RECURSIVE calc_init_first_only(_, _, _)
calc_init_first_only(w, gs, hours) ==
    IF gs = << >> THEN w
    ELSE LET node == Head(gs)
             key  == w.time
         IN  [w EXCEPT !.gw[node].timestep = hours,
                       !.gw[node].time_series = Append(@, key),
                       !.gw[node].credits = Put(@, key, 0),
                       !.gw[node].demand = Put(@, key, RInt(0)),
                       !.gw[node].debits = Put(@, key, 0),
                       !.gw[node].balance = Put(@, key, RInt(0))]

\* calc, `# init`: every connected Gateway gets the timestep and zeroed
\* entries for the timestamp
RECURSIVE calc_init(_, _, _)
calc_init(w, gs, hours) ==
    IF gs = << >> THEN w
    ELSE LET node == Head(gs)
             key  == w.time
         IN  calc_init([w EXCEPT !.gw[node].timestep = hours,
                                 !.gw[node].time_series = Append(@, key),
                                 !.gw[node].credits = Put(@, key, 0),
                                 !.gw[node].demand = Put(@, key, RInt(0)),
                                 !.gw[node].debits = Put(@, key, 0),
                                 !.gw[node].balance = Put(@, key, RInt(0))],
                       Tail(gs), hours)

\* calc, `# total non-droopable energy demand`
RECURSIVE calc_demand(_, _)
calc_demand(w, gs) ==
    IF gs = << >> THEN w
    ELSE LET node == Head(gs)
             key  == w.time
             w1 == query_devices(w, needing_children(node))
             node_dmnd == RMul(RInt(Gateway_needsenergy(w1, node)),
                               RSub(RInt(1), Gateway_droopable(w1, node)))
         IN  calc_demand([w1 EXCEPT !.gw[node].demand =
                              Put(@, key, RAdd(Get(@, key, RInt(0)), node_dmnd)),
                                    !.init_first = @ /\ Initialised(w)],
                         Tail(gs))

\* calc, `# total energy with curtailment penalties`
RECURSIVE calc_source(_, _)
calc_source(w, gs) ==
    IF gs = << >> THEN w
    ELSE LET node == Head(gs)
             key  == w.time
             w1 == query_devices(w, having_children(node))
         IN  calc_source([w1 EXCEPT !.gw[node].source =
                              Put(@, key, RMul(RInt(Gateway_hasenergy(w1, node)),
                                               Gateway_curtailment_ratio(w1, node))),
                                    !.init_first = @ /\ Initialised(w)],
                         Tail(gs))

\* calc, the loop setting balance[key] = source[key] + demand[key]
RECURSIVE calc_balance(_, _)
calc_balance(w, gs) ==
    IF gs = << >> THEN w
    ELSE LET node == Head(gs)
             key  == w.time
         IN  calc_balance([w EXCEPT !.gw[node].balance =
                               Put(@, key, RAdd(w.gw[node].source[key],
                                                w.gw[node].demand[key])),
                                    !.init_first = @ /\ Initialised(w)],
                          Tail(gs))

\* calc, `for bid in bids`, with every bid settled by the Gateway calc was
\* called on
RECURSIVE calc_settle_at_caller(_, _, _)
calc_settle_at_caller(w, self, bids) ==
    IF bids = << >> \/ w.err # "" THEN w
    ELSE calc_settle_at_caller(get_energy(w, self, Head(bids)), self, Tail(bids))

\* calc, `for bid in bids`: each bid is handed to the bidder's Gateway
RECURSIVE calc_settle(_, _, _)
calc_settle(w, self, bids) ==
    IF bids = << >> \/ w.err # "" THEN w
    ELSE LET bid  == Head(bids)
             dest == dest_gateway(self, bid.obj_id)
         IN  IF dest = 0 THEN [w EXCEPT !.err = "KeyError"]
             ELSE calc_settle(get_energy(w, dest, bid), self, Tail(bids))

\* Gateway.calc
calc(w, self, hours) ==
    LET w0 == [w EXCEPT !.gw[self].hours = Append(@, hours),
                         !.txlog = << >>, !.trace = << >>, !.init_first = TRUE]
        w1 == calc_init(w0, connected_domains, hours)
        w2 == calc_demand(w1, connected_domains)
        w3 == calc_source(w2, connected_domains)
        w4 == calc_balance(w3, connected_domains)
        w5 == query_devices(w4, Nodes)
        bids == rank_bids(bidding_network(w5))
    IN  calc_settle(w5, self, bids)

(***************************************************************************)
(* Networks stepped as the case scripts do: objects are built, export() is *)
(* set on Gateways, then each timestamp is update_time followed by calc.   *)
(***************************************************************************)
MaxSteps == 2
MaxDemand == 2
MaxOutput == 2
NetCapacity == 2

\* all orders in which a set of nodes can be iterated
RECURSIVE Orders(_)
Orders(S) ==
    IF S = {} THEN {<< >>}
    ELSE UNION { {<<x>> \o rest : rest \in Orders(S \ {x})} : x \in S }

\* Load.droop_ratio
DroopRatios == {RInt(0), Rat(1, 2), RInt(1)}

\* Gateway([load, plant, batt]), as in case1
SingleDomain ==
    [kind |-> <<"Gateway", "Load", "Source", "IdealStorage">>,
     parent |-> <<0, 1, 1, 1>>,
     order |-> {<<1>> \o ds \o <<3>> : ds \in Orders({2, 4})},
     per_kwh |-> {[n \in {2} |-> Rat(7, 100)]},
     droop_ratio |-> [{2} -> DroopRatios],
     buy |-> [{4} -> StorageBuyValues]]

\* Gateway([load, load, plant])
TwoLoads ==
    [kind |-> <<"Gateway", "Load", "Load", "Source">>,
     parent |-> <<0, 1, 1, 1>>,
     order |-> {<<1>> \o ds \o <<4>> : ds \in Orders({2, 3})},
     per_kwh |-> {[n \in {2, 3} |-> IF n = 2 THEN Rat(7, 100) ELSE v] : v \in LoadValues},
     droop_ratio |-> {[n \in {2, 3} |-> IF n = 2 THEN d ELSE RInt(0)]
                         : d \in {RInt(0), Rat(1, 2)}},
     buy |-> {<< >>}]

\* Gateway([Gateway([load, batt]), plant, batt]), as in case2a
NestedDomains ==
    [kind |-> <<"Gateway", "Gateway", "Load", "IdealStorage", "Source", "IdealStorage">>,
     parent |-> <<0, 1, 2, 2, 1, 1>>,
     order |-> {<<1, 2, 5>> \o ds : ds \in Orders({3, 4, 6})},
     per_kwh |-> {[n \in {3} |-> Rat(7, 100)]},
     droop_ratio |-> {[n \in {3} |-> RInt(0)]},
     buy |-> {[n \in {4, 6} |-> Rat(1, 100000)]}]

Shapes == {SingleDomain, TwoLoads, NestedDomains}

KindOf(shape, kind) == {n \in DOMAIN shape.kind : shape.kind[n] = kind}

\* the networks: a shape, the order in which the graph yields the nodes (the
\* auction passes over Gateways, and a Source neither bids nor ties with a
\* storage offer, so only Loads and storage change places), the attributes
\* of the devices, and the Gateway and interval the run calls calc with
Networks ==
    UNION { [kind : {shape.kind},
             parent : {shape.parent},
             order : shape.order,
             per_kwh : shape.per_kwh,
             droop_ratio : shape.droop_ratio,
             buy : shape.buy,
             capacity : [KindOf(shape, "IdealStorage") -> {NetCapacity}],
             caller : KindOf(shape, "Gateway"),
             hours : 1..MaxHours]
          : shape \in Shapes }

\* Gateway.__init__
Gateway ==
    [timestep |-> 0, time_series |-> << >>, hours |-> << >>,
     credits |-> EmptyDict, debits |-> EmptyDict, balance |-> EmptyDict,
     demand |-> EmptyDict, outage |-> EmptyDict, source |-> EmptyDict,
     shortfall |-> 0, lolh |-> RInt(0), export_power |-> TRUE]

NoInput == [demand |-> << >>, output |-> << >>]

\* the objects as constructed; env.time is None (0)
NewWorld ==
    [time |-> 0,
     inp |-> NoInput,
     ld  |-> [n \in LoadNodes |-> [balance |-> EmptyDict, dmnd |-> EmptyDict]],
     src |-> [n \in SourceNodes |->
                 [balance |-> EmptyDict, generation |-> EmptyDict, debits |-> EmptyDict]],
     stg |-> [n \in StorageNodes |-> IdealStorage(net.capacity[n])],
     gw  |-> [n \in GatewayNodes |-> Gateway],
     txlog |-> << >>,
     trace |-> << >>,
     init_first |-> TRUE,
     err |-> ""]

\* Gateway.export(False), before the run
Export ==
    \E g \in GatewayNodes :
        /\ pc = "idle"
        /\ world.gw[g].export_power
        /\ world' = [world EXCEPT !.gw[g].export_power = FALSE]
        /\ prev' = world'
        /\ UNCHANGED <<net, pc>>
        /\ UNCHANGED <<storage_vars, auction_vars>>

\* env.update_time(dt): the next timestamp
UpdateTime ==
    /\ pc \in {"idle", "settled"}
    /\ world.time < MaxSteps
    /\ world' = [world EXCEPT !.time = @ + 1]
    /\ pc' = "ready"
    /\ UNCHANGED <<net, prev>>
    /\ UNCHANGED <<storage_vars, auction_vars>>

\* case(): calc on the Gateway of the run; demand and output are what the
\* load profiles and the plant give when the devices are first asked at
\* this timestamp
Calc ==
    \E demand \in [LoadNodes -> (-MaxDemand)..0], output \in [SourceNodes -> 0..MaxOutput] :
        /\ pc = "ready"
        /\ prev' = [world EXCEPT !.inp = [demand |-> demand, output |-> output]]
        /\ world' = calc(prev', net.caller, net.hours)
        /\ pc' = IF world'.err = "" THEN "settled" ELSE "failed"
        /\ UNCHANGED net
        /\ UNCHANGED <<storage_vars, auction_vars>>

Next == Export \/ UpdateTime \/ Calc

\* the objects of a network as constructed; no storage or node list apart
Init ==
    /\ stor = IdealStorage(1)
    /\ pre = stor
    /\ arg = NoArg
    /\ ret = 0
    /\ calls = << >>
    /\ hist = NoHist
    /\ nodes = << >>
    /\ req = None
    /\ ranked = << >>
    /\ chosen = None
    /\ op = "none"
    /\ net \in Networks
    /\ world = NewWorld
    /\ prev = world
    /\ pc = "idle"

Spec == Init /\ [][Next]_vars

\* no network
NoNetwork ==
    [kind |-> << >>, parent |-> << >>, order |-> << >>, per_kwh |-> << >>,
     droop_ratio |-> << >>, buy |-> << >>, capacity |-> << >>,
     caller |-> 0, hours |-> 0]

\* a list of nodes, before rank_bids or low_offer is called on it
AuctionInit ==
    /\ stor = IdealStorage(1)
    /\ pre = stor
    /\ arg = NoArg
    /\ ret = 0
    /\ calls = << >>
    /\ hist = NoHist
    /\ nodes \in NodeLists
    /\ req = None
    /\ ranked = << >>
    /\ chosen = None
    /\ op = "none"
    /\ net = NoNetwork
    /\ world = NewWorld
    /\ prev = world
    /\ pc = "idle"

SpecAuction == AuctionInit /\ [][AuctionNext]_vars

\* s = IdealStorage(i_capacity): a new storage is full
StorageInit ==
    /\ \E cap \in Capacities : stor = IdealStorage(cap)
    /\ pre = stor
    /\ arg = NoArg
    /\ ret = 0
    /\ calls = << >>
    /\ hist = NoHist
    /\ nodes = << >>
    /\ req = None
    /\ ranked = << >>
    /\ chosen = None
    /\ op = "none"
    /\ net = NoNetwork
    /\ world = NewWorld
    /\ prev = world
    /\ pc = "idle"

SpecStorage == StorageInit /\ [][StorageNext]_vars

(***************************************************************************)
(* Steady runs: one Gateway, one load that asks for the same energy at     *)
(* every timestamp, one source that puts out the same energy at every      *)
(* timestamp, with or without a storage, stepped hour by hour.             *)
(***************************************************************************)
SteadySteps == 6

\* Wh per hour the load asks for, the source puts out, the storage holds
SteadyLoads == {10}

SteadyOutputs == {0, 5, 15}

SteadyCapacities == {10, 20}
\* W at STC of the plant's modules: none, or a 100 W module
SteadyNameplates == {0, 100}

\* a plant without modules puts out nothing
SteadyPlants(shapes) == {s \in shapes : s.output[3] > 0 => s.stc[3] > 0}

\* Gateway([load, plant]) and Gateway([load, plant, batt])
SteadyNetworks ==
    SteadyPlants(
    [kind : {<<"Gateway", "Load", "Source">>},
     parent : {<<0, 1, 1>>},
     order : {<<1, 2, 3>>, <<1, 3, 2>>},
     per_kwh : {[n \in {2} |-> Rat(7, 100)]},
     droop_ratio : {[n \in {2} |-> RInt(0)]},
     buy : {<< >>},
     capacity : {<< >>},
     caller : {1},
     hours : {1},
     demand : {[n \in {2} |-> -l] : l \in SteadyLoads},
     output : {[n \in {3} |-> o] : o \in SteadyOutputs},
     stc : {[n \in {3} |-> p] : p \in SteadyNameplates}]
    \cup
    [kind : {<<"Gateway", "Load", "Source", "IdealStorage">>},
     parent : {<<0, 1, 1, 1>>},
     order : {<<1, 2, 3, 4>>, <<1, 4, 3, 2>>},
     per_kwh : {[n \in {2} |-> Rat(7, 100)]},
     droop_ratio : {[n \in {2} |-> RInt(0)]},
     buy : {[n \in {4} |-> Rat(1, 100000)]},
     capacity : {[n \in {4} |-> c] : c \in SteadyCapacities},
     caller : {1},
     hours : {1},
     demand : {[n \in {2} |-> -l] : l \in SteadyLoads},
     output : {[n \in {3} |-> o] : o \in SteadyOutputs},
     stc : {[n \in {3} |-> p] : p \in SteadyNameplates}])

SteadyInit ==
    /\ stor = IdealStorage(1)
    /\ pre = stor
    /\ arg = NoArg
    /\ ret = 0
    /\ calls = << >>
    /\ hist = NoHist
    /\ nodes = << >>
    /\ req = None
    /\ ranked = << >>
    /\ chosen = None
    /\ op = "none"
    /\ net \in SteadyNetworks
    /\ world = NewWorld
    /\ prev = world
    /\ pc = "idle"

\* env.update_time(dt), hour after hour
SteadyUpdateTime ==
    /\ pc \in {"idle", "settled"}
    /\ world.time < SteadySteps
    /\ world' = [world EXCEPT !.time = @ + 1]
    /\ pc' = "ready"
    /\ UNCHANGED <<net, prev>>
    /\ UNCHANGED <<storage_vars, auction_vars>>

\* case(), the load profile and the plant giving what they always give
SteadyCalc ==
    /\ pc = "ready"
    /\ prev' = [world EXCEPT !.inp = [demand |-> net.demand, output |-> net.output]]
    /\ world' = calc(prev', net.caller, net.hours)
    /\ pc' = IF world'.err = "" THEN "settled" ELSE "failed"
    /\ UNCHANGED net
    /\ UNCHANGED <<storage_vars, auction_vars>>

SteadyNext == SteadyUpdateTime \/ SteadyCalc

SpecSteady == SteadyInit /\ [][SteadyNext]_vars

\* Load.enabled of a DailyLoad with a flat profile: total() is 24 hours of
\* the demand, interval is 24, env.total_time the hours run so far
enabled(w, n) ==
    LET td == net.demand[n] * w.time
        sf == Sum(w.ld[n].balance, DOMAIN w.ld[n].balance)
    IN  Abs(td - sf)

\* Source.total_gen
total_gen(w, n) == Sum(w.src[n].generation, DOMAIN w.src[n].generation)

\* Gateway.eta: net_l / g over every node of the network; the division
\* raises ZeroDivisionError when g is zero
eta(w) ==
    LET net_l == Sum([n \in LoadNodes |-> enabled(w, n)], LoadNodes)
        g     == Sum([n \in SourceNodes |-> total_gen(w, n)], SourceNodes)
    IN  IF g = 0
        THEN [err |-> "ZeroDivisionError", value |-> None]
        ELSE [err |-> "", value |-> Rat(net_l, g)]

\* Gateway.STC: the nameplate of the children that generate
STC(g) ==
    LET gen == children(g) \cap SourceNodes
    IN  Sum([n \in gen |-> net.stc[n]], gen)

\* Gateway.capacity_factor without its test of STC()
capacity_factor_unguarded(w, g) ==
    IF STC(g) * 24 * 365 = 0
    THEN [err |-> "ZeroDivisionError", value |-> None]
    ELSE [err |-> "", value |-> Rat(0, STC(g) * 24 * 365)]

\* Gateway.capacity_factor: self.net_l is created empty and nothing appends
\* to it, so sum(self.net_l) is 0
capacity_factor(w, g) ==
    IF STC(g) # 0
    THEN [err |-> "", value |-> Rat(0, STC(g) * 24 * 365)]
    ELSE [err |-> "", value |-> RInt(0)]

(***************************************************************************)
(* Gateway.transaction called by hand between the steps of a steady run,   *)
(* with an offer of the plant of any size and a bid of the load.           *)
(***************************************************************************)

\* case.transaction(Offer(id(plant), wh, 0.), Bid(id(load), need, per_kwh));
\* no more than MaxCalls transactions in one step are explored
Transaction ==
    \E wh \in {0} \cup SteadyOutputs :
        /\ pc = "settled"
        /\ Len(world.txlog) < MaxCalls
        /\ prev' = world
        /\ arg' = [NoArg EXCEPT !.energy = wh]
        /\ world' = transaction(world, 1, Offer(3, wh, RInt(0)),
                                Bid(2, Load_needsenergy(world, 2), net.per_kwh[2]))
        /\ pc' = IF world'.err = "" THEN "settled" ELSE "failed"
        /\ UNCHANGED net
        /\ UNCHANGED <<stor, pre, ret, calls, hist, auction_vars>>

TransactionNext == SteadyUpdateTime \/ SteadyCalc \/ Transaction

SpecTransaction == SteadyInit /\ [][TransactionNext]_vars

(***************************************************************************)
(* A source driven alone: the clock moves, energy() opens the timestamp's  *)
(* balance, and power_io is called with any energy, as a caller other than *)
(* Gateway.transaction could.                                              *)
(***************************************************************************)

\* Gateway([plant])
LoneSource ==
    [kind |-> <<"Gateway", "Source">>,
     parent |-> <<0, 1>>,
     order |-> <<1, 2>>,
     capacity |-> << >>,
     caller |-> 1,
     hours |-> 1]

SourceInit ==
    /\ stor = IdealStorage(1)
    /\ pre = stor
    /\ arg = NoArg
    /\ ret = 0
    /\ calls = << >>
    /\ hist = NoHist
    /\ nodes = << >>
    /\ req = None
    /\ ranked = << >>
    /\ chosen = None
    /\ op = "none"
    /\ net = LoneSource
    /\ world = NewWorld
    /\ prev = world
    /\ pc = "idle"

\* env.update_time(dt)
SourceUpdateTime ==
    /\ pc \in {"idle", "open"}
    /\ world.time < MaxSteps
    /\ world' = [world EXCEPT !.time = @ + 1]
    /\ prev' = world'
    /\ pc' = "ready"
    /\ UNCHANGED net
    /\ UNCHANGED <<storage_vars, auction_vars>>

\* plant.energy(), the first of the timestamp, with what output() gives
SourceEnergy ==
    \E output \in 0..MaxOutput :
        /\ pc = "ready"
        /\ world' = Source_energy([world EXCEPT !.inp.output = [n \in {2} |-> output]], 2)
        /\ prev' = world'
        /\ pc' = "open"
        /\ UNCHANGED net
        /\ UNCHANGED <<storage_vars, auction_vars>>

\* plant.power_io(energy); a balance above MaxOutput + 1 is not explored
SourcePowerIO ==
    \E energy \in (-(MaxOutput + 1))..(MaxOutput + 1) :
        /\ pc = "open"
        /\ world.src[2].balance[world.time] + energy <= MaxOutput + 1
        /\ prev' = world
        /\ arg' = [NoArg EXCEPT !.energy = energy]
        /\ world' = Source_power_io(world, 2, energy)
        /\ pc' = IF world'.err = "" THEN "open" ELSE "failed"
        /\ UNCHANGED net
        /\ UNCHANGED <<stor, pre, ret, calls, hist, auction_vars>>

SourceNext == SourceUpdateTime \/ SourceEnergy \/ SourcePowerIO

SpecSource == SourceInit /\ [][SourceNext]_vars

(***************************************************************************)
(* Construction: the devices exist, the Gateways are made from the leaves  *)
(* up, and each Gateway.__init__ calls graph(). A graph object is named by *)
(* the node that created it; network[n] = 0 is a node without the network  *)
(* attribute.                                                              *)
(***************************************************************************)

MaxTree == 5

RECURSIVE Ascending(_)
Ascending(S) ==
    IF S = {} THEN << >>
    ELSE LET m == CHOOSE x \in S : \A y \in S : x <= y
         IN  <<m>> \o Ascending(S \ {m})

\* the trees over 1..size rooted in node 1
TreeParents(size) ==
    {p \in [1..size -> 0..(size - 1)] :
        /\ p[1] = 0
        /\ \A n \in 2..size : p[n] \in 1..(n - 1)}

\* what the nodes of a tree can be: the root is a Gateway, a node with
\* children is a Gateway or a charge controller over its array, one without
\* is a device, and a Gateway is held by a Gateway
TreeKinds(size, p) ==
    {k \in [1..size -> {"Gateway", "Controller", "Device"}] :
        /\ k[1] = "Gateway"
        /\ \A n \in 1..size :
               /\ k[n] = "Device" <=> ~\E c \in 1..size : p[c] = n
               /\ (n > 1 /\ k[n] = "Gateway") => k[p[n]] = "Gateway"}

\* the trees of up to MaxTree nodes, children held in either order
TreeShapes ==
    UNION {
        UNION {
            {[size |-> size, parent |-> p, kind |-> k, reversed |-> r] :
                k \in TreeKinds(size, p), r \in BOOLEAN}
            : p \in TreeParents(size)}
        : size \in 2..MaxTree}

\* self.children, in list order
child_list(n) ==
    LET up == Ascending({c \in 1..net.size : net.parent[c] = n})
    IN  IF net.reversed THEN [k \in 1..Len(up) |-> up[Len(up) + 1 - k]] ELSE up

\* the branch `if c != self.network` of graph(), with only the child itself
\* pointed at the merged graph
merge_child_only(h, self, i) ==
    LET c == h.network[i]
        G == h.network[self]
    IN  [h EXCEPT !.graphs[G].nodes = @ \cup h.graphs[c].nodes,
                  !.graphs[G].edges = @ \cup h.graphs[c].edges \cup {{self, i}},
                  !.network[i] = G]

\* the branch `if c != self.network` of graph(): the child's graph is added
\* to self.network and every node of it is pointed at self.network
merge(h, self, i) ==
    LET c == h.network[i]
        G == h.network[self]
    IN  [h EXCEPT !.graphs[G].nodes = @ \cup h.graphs[c].nodes,
                  !.graphs[G].edges = @ \cup h.graphs[c].edges \cup {{self, i}},
                  !.network = [n \in DOMAIN @ |->
                                  IF n \in h.graphs[c].nodes THEN G ELSE @[n]]]

RECURSIVE graph(_, _)
RECURSIVE graph_children(_, _, _)

\* the second loop of graph(), from the k-th child on
graph_children(h, self, k) ==
    LET kids == child_list(self)
    IN  IF k > Len(kids) THEN h
        ELSE LET i  == kids[k]
                 hc == graph(h, i)
                 h2 == IF hc.network[i] # hc.network[self]
                       THEN merge(hc, self, i)
                       ELSE [hc EXCEPT !.graphs[hc.network[self]].edges = @ \cup {{self, i}}]
             IN  graph_children(h2, self, k + 1)

\* Model.graph: a node without network takes the graph of its first child,
\* or a new graph when it has no children; then the children are merged in
graph(h, self) ==
    LET kids == child_list(self)
        h1 == IF h.network[self] # 0 THEN h
              ELSE IF kids # << >>
                   THEN LET i  == kids[1]
                            hc == graph(h, i)
                            G  == hc.network[i]
                        IN  [hc EXCEPT !.network[self] = G,
                                       !.graphs[G].nodes = @ \cup {self},
                                       !.graphs[G].edges = @ \cup {{self, i}}]
                   ELSE [h EXCEPT !.network[self] = self,
                                  !.graphs[self] = [nodes |-> {self}, edges |-> {}]]
    IN  graph_children(h1, self, 1)

GraphInit ==
    /\ stor = IdealStorage(1)
    /\ pre = stor
    /\ arg = NoArg
    /\ ret = 0
    /\ calls = << >>
    /\ hist = NoHist
    /\ nodes = << >>
    /\ req = None
    /\ ranked = << >>
    /\ chosen = None
    /\ op = "none"
    /\ net \in TreeShapes
    /\ world = [network |-> [n \in 1..net.size |-> 0],
                graphs |-> [n \in 1..net.size |-> [nodes |-> {}, edges |-> {}]],
                made |-> {n \in 1..net.size : net.kind[n] # "Gateway"}]
    /\ prev = world
    /\ pc = "building"

\* Gateway(children), once the children are there
Construct ==
    \E g \in 1..net.size :
        /\ g \notin world.made
        /\ \A c \in 1..net.size : net.parent[c] = g => c \in world.made
        /\ prev' = world
        /\ world' = [graph(world, g) EXCEPT !.made = @ \cup {g}]
        /\ pc' = IF g = 1 THEN "built" ELSE "building"
        /\ UNCHANGED net
        /\ UNCHANGED <<storage_vars, auction_vars>>

SpecGraph == GraphInit /\ [][Construct]_vars

(***************************************************************************)
(* The environment module alone: its globals time (None is 0),             *)
(* time_series, network and total_time, under update_time and reset.       *)
(***************************************************************************)

EnvInit ==
    /\ stor = IdealStorage(1)
    /\ pre = stor
    /\ arg = NoArg
    /\ ret = 0
    /\ calls = << >>
    /\ hist = NoHist
    /\ nodes = << >>
    /\ req = None
    /\ ranked = << >>
    /\ chosen = None
    /\ op = "none"
    /\ net = LoneSource
    /\ world = [time |-> 0, time_series |-> << >>, network |-> None, total_time |-> 0]
    /\ prev = world
    /\ pc = "idle"

\* env.update_time(dt, hours); histories longer than MaxCalls are not explored
EnvUpdateTime ==
    \E dt \in 1..MaxCalls, hours \in 1..MaxHours :
        /\ Len(world.time_series) < MaxCalls
        /\ prev' = world
        /\ world' = [world EXCEPT !.total_time = @ + hours,
                                  !.time_series = Append(@, dt),
                                  !.time = dt]
        /\ pc' = "updated"
        /\ UNCHANGED net
        /\ UNCHANGED <<storage_vars, auction_vars>>

\* env.reset(): time is not among its globals and is left as it is
EnvReset ==
    /\ prev' = world
    /\ world' = [world EXCEPT !.time_series = << >>,
                              !.network = None,
                              !.total_time = 0]
    /\ pc' = "reset"
    /\ UNCHANGED net
    /\ UNCHANGED <<storage_vars, auction_vars>>

EnvNext == EnvUpdateTime \/ EnvReset

SpecEnv == EnvInit /\ [][EnvNext]_vars

(***************************************************************************)
(* Properties of IdealStorage, under SpecStorage.                          *)
(***************************************************************************)
Called == calls # << >>

\* what the last call asked for and what it moved into the storage
Requested == arg.energy

Delivered == stor.state - pre.state

Overflows == Requested > 0 /\ Requested > pre.nominal_capacity - pre.state

FallsShort == Requested < 0 /\ -Requested > pre.state

\* C1: after any sequence of power_io calls on a storage that started full,
\* 0 <= state <= nominal_capacity.
C1_StateWithinCapacity ==
    /\ 0 <= stor.state
    /\ stor.state <= stor.nominal_capacity

\* a discharge asking for more than is stored has emptied the storage
C1_Witness ==
    /\ Called /\ FallsShort
    /\ pre.state > 0
    /\ stor.state = 0

\* C2 (as amended): power_io returns delivered minus requested: 0 when the
\* request is fully satisfied, negative when charging overflows, positive
\* when a discharge falls short; on an empty storage of capacity 100,
\* power_io(100) returns 0 and leaves state 100, and a following
\* power_io(-150) returns +50 and leaves state 0.
C2_ReturnsDeliveredMinusRequested ==
    Called =>
        /\ ret = Delivered - Requested
        /\ (Delivered = Requested <=> ret = 0)
        /\ (Overflows => ret < 0)
        /\ (FallsShort => ret > 0)
        /\ (pre.nominal_capacity = DocCapacity /\ pre.state = 0 /\ Requested = 100
                => ret = 0 /\ stor.state = 100)
        /\ (pre.nominal_capacity = DocCapacity /\ pre.state = 100 /\ Requested = -150
                => ret = 50 /\ stor.state = 0)

\* the round trip: emptied, charged with 100, then asked for 150
C2_Witness ==
    /\ stor.nominal_capacity = DocCapacity
    /\ calls = <<-100, 100, -150>>
    /\ ret = 50
    /\ stor.state = 0

\* C2 as stated: power_io returns requested minus delivered, signed as the
\* request (positive on charging overflow, negative on discharge shortfall;
\* -50 for power_io(-150) on a full storage of capacity 100).
C2_ReturnsUnmetSignedAsRequest ==
    Called =>
        /\ ret = Requested - Delivered
        /\ (Overflows => ret > 0)
        /\ (FallsShort => ret < 0)
        /\ (pre.nominal_capacity = DocCapacity /\ pre.state = 100 /\ Requested = -150
                => ret = -50 /\ stor.state = 0)

\* C3: x + storage is power_io(x) over one hour and returns delivered minus
\* requested: charging a full storage with x > 0 returns -x and leaves state
\* unchanged, discharging no more than is stored returns 0 and lowers state
\* by that amount; on a fresh IdealStorage(100), 10 + s is -10 and then
\* -10 + s is 0, and after 10 + s, -110 + s, 90 + s the state of charge is 0.9.
C3_RaddDeliveredMinusRequested ==
    /\ (Called /\ arg.radd) =>
        /\ arg.hours = 1 /\ Requested = arg.power
        /\ ret = Delivered - arg.power
        /\ (arg.power > 0 /\ pre.state = pre.nominal_capacity
                => ret = -arg.power /\ stor.state = pre.state)
        /\ (arg.power < 0 /\ -arg.power <= pre.state
                => ret = 0 /\ stor.state = pre.state + arg.power)
    /\ stor.nominal_capacity = DocCapacity =>
        /\ (calls = <<10>> => ret = -10)
        /\ (calls = <<10, -10>> => ret = 0)
        /\ (calls = <<10, -110, 90>> => soc(stor) = Rat(9, 10))

\* the unit test's three additions have run
C3_Witness ==
    /\ stor.nominal_capacity = DocCapacity
    /\ calls = <<10, -110, 90>>
    /\ arg.radd
    /\ soc(stor) = Rat(9, 10)

\* C4 (as amended): a discharging call lowers state by min(|requested|, state)
\* and adds minus the unmet magnitude, a non-positive amount, to shortfall;
\* after any sequence of calls surplus + shortfall equals the signed sum over
\* all calls of requested minus transferred energy.
C4_ShortfallIsSignedUnmet ==
    /\ (Called /\ Requested < 0) =>
        LET delivered == Min(-Requested, pre.state)
        IN  /\ stor.state = pre.state - delivered
            /\ stor.shortfall - pre.shortfall = -((-Requested) - delivered)
            /\ stor.shortfall - pre.shortfall <= 0
    /\ stor.surplus + stor.shortfall = hist.unmet

\* a discharge fell short on a storage that had also overflowed before
C4_Witness ==
    /\ Called /\ FallsShort
    /\ pre.state > 0
    /\ stor.surplus > 0
    /\ stor.shortfall < 0

\* C4 as stated: a discharging call adds the unmet magnitude, a non-negative
\* amount, to shortfall, and surplus + shortfall is the sum of the untransferred
\* magnitudes.
C4_ShortfallIsUnmetMagnitude ==
    /\ (Called /\ Requested < 0) =>
        LET delivered == Min(-Requested, pre.state)
        IN  /\ stor.state = pre.state - delivered
            /\ stor.shortfall - pre.shortfall = (-Requested) - delivered
            /\ stor.shortfall - pre.shortfall >= 0
    /\ stor.surplus + stor.shortfall = hist.unmet_abs

\* C5 (as amended): throughput equals the sum of the energy actually stored
\* by the charging calls (discharged energy is not counted), and it never
\* decreases.
C5_ThroughputIsEnergyStored ==
    /\ stor.throughput = hist.moved_in
    /\ stor.throughput >= pre.throughput

\* energy has moved in both directions
C5_Witness ==
    /\ hist.moved_in > 0
    /\ hist.moved_out > 0
    /\ stor.throughput > 0

\* C5 as stated: throughput is the sum of the magnitudes moved in either
\* direction.
C5_ThroughputBothDirections ==
    /\ stor.throughput = hist.moved_in + hist.moved_out
    /\ stor.throughput >= pre.throughput

\* C6: an overflowing charge adds the rejected excess to surplus and
\* (excess / requested) * hours to full_hours; charging a full storage for
\* one hour adds one full hour.
C6_FullHoursGrowByCeilingFraction ==
    (Called /\ Overflows) =>
        LET excess == Requested - (pre.nominal_capacity - pre.state)
        IN  /\ stor.surplus = pre.surplus + excess
            /\ stor.full_hours =
                   RAdd(pre.full_hours, RMul(Rat(excess, Requested), RInt(arg.hours)))
            /\ (pre.state = pre.nominal_capacity /\ arg.hours = 1
                    => stor.full_hours = RAdd(pre.full_hours, RInt(1)))

\* C7: power_io with zero requested energy leaves state, throughput, surplus,
\* shortfall and loss_occurence unchanged; drained_hours grows by hours
\* exactly when state is 0 and full_hours by hours exactly when state equals
\* nominal_capacity.
C7_ZeroEnergyFrame ==
    (Called /\ Requested = 0) =>
        /\ stor.state = pre.state
        /\ stor.throughput = pre.throughput
        /\ stor.surplus = pre.surplus
        /\ stor.shortfall = pre.shortfall
        /\ stor.loss_occurence = pre.loss_occurence
        /\ stor.nominal_capacity = pre.nominal_capacity
        /\ stor.drained_hours =
               IF pre.state = 0 THEN RAdd(pre.drained_hours, RInt(arg.hours))
               ELSE pre.drained_hours
        /\ stor.full_hours =
               IF pre.state = pre.nominal_capacity
               THEN RAdd(pre.full_hours, RInt(arg.hours))
               ELSE pre.full_hours
        /\ ret = 0

\* zero power over a positive interval on a storage that has overflowed and
\* then been emptied: the hours are counted as drained
C7_Witness ==
    /\ Called /\ Requested = 0
    /\ arg.hours > 0
    /\ pre.state = 0
    /\ pre.surplus > 0
    /\ stor.drained_hours # pre.drained_hours

\* the last call asked the storage for more than it held
AskedTooMuch == calls # << >> /\ arg.energy < 0 /\ -arg.energy > pre.state

\* C32: loss_occurence goes up by exactly 1 on every discharging power_io
\* call that asks for more than is stored and by 0 on every other call; on
\* those calls drained_hours grows by (unmet / requested) * hours
C32_LossOccurenceCountsFloorHits ==
    calls # << >> =>
        /\ stor.loss_occurence = pre.loss_occurence + (IF AskedTooMuch THEN 1 ELSE 0)
        /\ AskedTooMuch =>
               stor.drained_hours =
                   RAdd(pre.drained_hours,
                        RMul(Rat(-arg.energy - pre.state, -arg.energy), RInt(arg.hours)))

\* 3 Wh asked over 2 hours of a storage holding 1 Wh, after an earlier hit
C32_Witness ==
    /\ AskedTooMuch
    /\ pre.state = 1
    /\ pre.loss_occurence = 1
    /\ arg.power = -3
    /\ arg.hours = 1
    /\ stor.loss_occurence = 2
    /\ stor.drained_hours = RAdd(pre.drained_hours, Rat(2, 3))

(***************************************************************************)
(* Properties of the auction helpers, under SpecAuction.                   *)
(***************************************************************************)
\* the nodes that expose bid() and whose bid() is not None
Bidders == {i \in 1..Len(nodes) : has_bid(nodes[i]) /\ nodes[i].bid # None}

\* the nodes whose offer low_offer may return for the bid req
Eligible ==
    {i \in 1..Len(nodes) :
        /\ has_offer(nodes[i])
        /\ nodes[i].offer # None
        /\ nodes[i].offer.obj_id # req.obj_id
        /\ ~(req.storage /\ nodes[i].offer.storage)}

\* C8: rank_bids returns exactly the non-None bids of the nodes that expose
\* bid(), one per node, ordered by non-increasing value.
C8_RankBidsSortedNonNone ==
    op = "rank_bids" =>
        /\ Len(ranked) = Cardinality(Bidders)
        /\ \A i \in Bidders : \E j \in 1..Len(ranked) : ranked[j] = nodes[i].bid
        /\ \A j \in 1..Len(ranked) : \E i \in Bidders : ranked[j] = nodes[i].bid
        /\ \A j, k \in 1..Len(ranked) :
               j < k => ~RLess(ranked[j].value, ranked[k].value)

\* two bids were put in a different order than their nodes come in, past a
\* node whose bid() is None
C8_Witness ==
    /\ op = "rank_bids"
    /\ Len(ranked) = 2
    /\ ranked[1].obj_id > ranked[2].obj_id
    /\ RLess(ranked[2].value, ranked[1].value)
    /\ \E i \in 1..Len(nodes) : has_bid(nodes[i]) /\ nodes[i].bid = None

\* C9: low_offer returns an offer of minimum value among the eligible offers
\* (another obj_id than the bid's, not a storage offer for a storage bid), and
\* None exactly when there is no eligible offer, whatever the prices.
C9_LowOfferCheapestEligible ==
    op = "low_offer" =>
        /\ chosen = None <=> Eligible = {}
        /\ chosen # None =>
               /\ \E i \in Eligible : chosen = nodes[i].offer
               /\ \A i \in Eligible : ~RLess(nodes[i].offer.value, chosen.value)

\* C33: rank_bids is stable: bids of equal value come out in the order in
\* which their nodes are iterated (the nodes of the list are numbered in
\* that order), so of equal bidders the one met first is settled first
C33_RankBidsStable ==
    op = "rank_bids" =>
        \A j, k \in 1..Len(ranked) :
            (j < k /\ ranked[j].value = ranked[k].value) =>
                ranked[j].obj_id < ranked[k].obj_id

\* two bids of equal value kept in node order behind a later, higher bid
C33_Witness ==
    /\ op = "rank_bids"
    /\ Len(ranked) = 3
    /\ ranked[1].obj_id = 3
    /\ ranked[2].obj_id = 1
    /\ ranked[3].obj_id = 2
    /\ ranked[2].value = ranked[3].value
    /\ RLess(ranked[2].value, ranked[1].value)

(***************************************************************************)
(* Properties of the Gateway settlement, under Spec.                       *)
(***************************************************************************)
\* the transactions of the last calc
Transactions == {world.txlog[i] : i \in 1..Len(world.txlog)}

\* C10: no transaction of any calc() step moves energy from a device to
\* itself: a storage that both bids and offers is never its own source
C10_NoSelfTrade ==
    \A t \in Transactions : t.source # t.dest

\* a storage that was neither empty nor full when calc began, so that it
\* both bid and offered, took energy in the step
C10_Witness ==
    \E t \in Transactions :
        /\ IsStorage(t.dest)
        /\ prev.stg[t.dest].state > 0
        /\ prev.stg[t.dest].state < prev.stg[t.dest].nominal_capacity
        /\ t.delta > 0

\* C11: no transaction of any calc() step moves energy from a storage to
\* another storage: a storage bid is served by non-storage offers only
C11_NoStorageToStorage ==
    \A t \in Transactions : ~(IsStorage(t.source) /\ IsStorage(t.dest))

\* a storage took energy in a step in which another storage, free to export
\* to it, held energy when the step began
C11_Witness ==
    \E t \in Transactions : \E b \in StorageNodes \ {t.dest} :
        /\ IsStorage(t.dest)
        /\ t.delta > 0
        /\ prev.stg[b].state > 0
        /\ \A g \in GatewayNodes : export(prev, g)

\* what a load asked for and what the sources put out in the last calc
Need(n) == -prev.inp.demand[n]

Supply == Sum(prev.inp.output, SourceNodes)

\* what a load still needs after the last calc
Unserved(n) == -world.ld[n].balance[world.time]

\* the pairs <<hi, lo>> of loads of one Gateway where hi bids the higher value
RankedLoadPairs ==
    {p \in LoadNodes \X LoadNodes :
        /\ net.parent[p[1]] = net.parent[p[2]]
        /\ RLess(net.per_kwh[p[2]], net.per_kwh[p[1]])}

\* C12: in a single Gateway with two loads bidding v1 > v2 and a supply
\* smaller than their combined demand, the v1 load is settled first: it is
\* left short only of what the supply cannot cover, the v2 load absorbs the
\* rest of the shortfall and receives nothing before the v1 load
C12_HigherBidServedFirst ==
    (pc = "settled" /\ StorageNodes = {}) =>
        \A p \in RankedLoadPairs :
            LET hi == p[1]
                lo == p[2]
            IN  Supply < Need(hi) + Need(lo) =>
                    /\ Unserved(hi) = (IF Need(hi) > Supply THEN Need(hi) - Supply ELSE 0)
                    /\ Unserved(lo) =
                           Need(lo) - (IF Supply > Need(hi) THEN Supply - Need(hi) ELSE 0)
                    /\ \A i, j \in 1..Len(world.txlog) :
                           (world.txlog[i].dest = lo /\ world.txlog[j].dest = hi) => j < i

\* the higher bidder comes later in the network, the supply covers it and
\* part of what the lower bidder needs, and both were served
C12_Witness ==
    /\ pc = "settled"
    /\ StorageNodes = {}
    /\ \E p \in RankedLoadPairs :
           /\ \E i, j \in 1..Len(net.order) :
                  i < j /\ net.order[i] = p[2] /\ net.order[j] = p[1]
           /\ Need(p[1]) > 0
           /\ Supply > Need(p[1])
           /\ Supply < Need(p[1]) + Need(p[2])
           /\ Unserved(p[2]) > 0
           /\ \E t \in Transactions : t.dest = p[2] /\ t.delta > 0
           /\ \E t \in Transactions : t.dest = p[1] /\ t.delta > 0

\* the turns and ends of the get_energy loops of the last calc
Trace == {world.trace[i] : i \in 1..Len(world.trace)}

\* the offers that may serve the bid of a turn: from another device, and not
\* a storage offer for a storage bid
EligibleOffers(e) ==
    {e.offers[i].offer : i \in {k \in 1..Len(e.offers) :
        /\ e.offers[k].offer # None
        /\ e.offers[k].offer.obj_id # e.bid.obj_id
        /\ ~(e.bid.storage /\ e.offers[k].offer.storage)}}

\* C13: for one bid, get_energy takes the lowest offer each time round and
\* moves exactly min(remaining need, offered quantity) from the offering
\* device to the bidder; it stops only when the need is zero or no eligible
\* offer remains
C13_GetEnergyTakesLowestOffer ==
    \A e \in Trace :
        /\ e.kind = "take" =>
               /\ e.offer \in EligibleOffers(e)
               /\ \A o \in EligibleOffers(e) : ~RLess(o.value, e.offer.value)
               /\ e.offer.wh = e.has
               /\ e.need_after - e.need = Min(Abs(e.need), e.offer.wh)
               /\ e.has - e.has_after = Min(Abs(e.need), e.offer.wh)
        /\ e.kind = "stop" => (e.need_after = 0 \/ EligibleOffers(e) = {})

\* one bid took all of a first offer that was too small, then part of a
\* dearer one from another device, and the loop ended with the need at zero
C13_Witness ==
    \E i, j, k \in 1..Len(world.trace) :
        /\ j = i + 1 /\ k = j + 1
        /\ world.trace[i].kind = "take"
        /\ world.trace[j].kind = "take"
        /\ world.trace[k].kind = "stop"
        /\ world.trace[i].bid = world.trace[j].bid
        /\ world.trace[i].offer.wh < Abs(world.trace[i].need)
        /\ RLess(world.trace[i].offer.value, world.trace[j].offer.value)
        /\ world.trace[j].offer.wh > Abs(world.trace[j].need)
        /\ world.trace[k].need = 0

\* the Gateway a device belongs to
Owner(n) == net.parent[n]

\* what lolh of a Gateway grew by in the last calc
LolhGrowth(g) == RSub(world.gw[g].lolh, prev.gw[g].lolh)

\* C14: when a non-storage bid is left partly unmet, lolh of the owning
\* Gateway grows by (unmet fraction of the demand) * timestep: the full
\* timestep when all is unmet, proportionally less when part is unmet
C14_LolhGrowsByUnmetFraction ==
    pc = "settled" =>
        \A n \in LoadNodes :
            (/\ net.droop_ratio[n] = RInt(0)
             /\ \A m \in LoadNodes \ {n} : Owner(m) = Owner(n) => Need(m) = 0
             /\ Unserved(n) > 0) =>
                LolhGrowth(Owner(n)) = RMul(Rat(Unserved(n), Need(n)), RInt(net.hours))

\* the bids of the last calc that get_energy of Gateway g left in need,
\* from storage or not
UnmetBids(g, storage) ==
    {e \in Trace : /\ e.kind = "stop"
                   /\ e.gateway = g
                   /\ e.need # 0
                   /\ e.bid.storage = storage}

\* the sum of what the bids of a set of loop ends were left in need of
RECURSIVE UnmetNeed(_)
UnmetNeed(S) ==
    IF S = {} THEN 0
    ELSE LET e == CHOOSE x \in S : TRUE IN e.need + UnmetNeed(S \ {e})

\* C15: when get_energy ends with the bidder still in need, a bid that is
\* not from storage makes the owning Gateway record an outage at the
\* timestamp and adds what the bidder still needs (needsenergy(), counted
\* negative) to its shortfall; a bid from storage leaves the Gateway's
\* outage, shortfall and lolh as they were
C15_ShortageAccounting ==
    pc \in {"settled", "failed"} =>
        \A g \in GatewayNodes :
            /\ world.gw[g].shortfall =
                   prev.gw[g].shortfall + UnmetNeed(UnmetBids(g, FALSE))
            /\ UnmetBids(g, FALSE) # {} =>
                   world.gw[g].outage = Put(prev.gw[g].outage, world.time, 1)
            /\ UnmetBids(g, FALSE) = {} =>
                   /\ world.gw[g].outage = prev.gw[g].outage
                   /\ world.gw[g].lolh = prev.gw[g].lolh

\* in one step a load and a storage of one Gateway were both left in need
C15_Witness ==
    /\ pc = "settled"
    /\ \E g \in GatewayNodes :
           /\ UnmetBids(g, FALSE) # {}
           /\ UnmetBids(g, TRUE) # {}
           /\ world.gw[g].shortfall < prev.gw[g].shortfall

\* C16: after every calc() at timestamp t every Gateway of the network has
\* t in time_series and an entry at t in credits, debits, balance and
\* demand, and within the call all Gateways had them before the demand,
\* source or balance of any Gateway was computed
C16_LogsInitialisedFirst ==
    pc \in {"settled", "failed"} => (Initialised(world) /\ world.init_first)

\* calc was called on the inner of two Gateways, at the second timestamp,
\* and energy crossed from one Gateway to the other
C16_Witness ==
    /\ pc = "settled"
    /\ world.time = 2
    /\ net.parent[net.caller] # 0
    /\ \E t \in Transactions : t.gateway # t.source_domain

\* needsenergy() of a device when the last calc began
StartNeed(n) ==
    IF IsLoad(n) THEN prev.inp.demand[n]
    ELSE IF IsStorage(n) THEN IdealStorage_needsenergy(prev, n)
    ELSE 0

\* the part of a device's need that cannot be drooped
FirmNeed(n) == RMul(RInt(StartNeed(n)), RSub(RInt(1), droopable(n)))

\* C17: the demand[t] calc() records for a Gateway is the sum over its
\* direct non-Gateway children of needsenergy() * (1 - droopable()), whatever
\* the needs and droop ratios; a storage child contributes 0
C17_DemandIsSumOfFirmNeeds ==
    pc \in {"settled", "failed"} =>
        \A g \in GatewayNodes :
            world.gw[g].demand[world.time] =
                RSum([n \in needing_children(g) |-> FirmNeed(n)], needing_children(g))

\* two children of one Gateway needed different amounts at different droop
\* ratios, one of them strictly between 0 and 1
C17_Witness ==
    /\ pc = "settled"
    /\ \E g \in GatewayNodes : \E n, m \in needing_children(g) :
           /\ StartNeed(n) # 0
           /\ StartNeed(m) # 0
           /\ StartNeed(n) # StartNeed(m)
           /\ droopable(n) = Rat(1, 2)
           /\ droopable(m) # droopable(n)

\* source[t] + demand[t] == balance[t] at every logged timestamp of Gateway g
Conserved(g) ==
    \A t \in DOMAIN world.gw[g].balance :
        RAdd(world.gw[g].source[t], world.gw[g].demand[t]) = world.gw[g].balance[t]

\* C18: for every Gateway of every network, nested Gateways that trade with
\* each other included, source[t] + demand[t] == balance[t] at every logged
\* timestamp once calc() has settled
C18_BalanceIsSourcePlusDemand ==
    pc = "settled" => \A g \in GatewayNodes : Conserved(g)

\* what the shortfall of a Gateway grew by in the last calc
ShortfallGrowth(g) == world.gw[g].shortfall - prev.gw[g].shortfall

\* C19: after settlement the balance[t] of each Gateway is exactly the
\* unfulfilled residual of the step, the sum of the shortfalls recorded for
\* the Gateway at t (of either sign), so 0 when storage covered the deficit
C19_BalanceIsResidual ==
    pc = "settled" =>
        \A g \in GatewayNodes :
            \/ world.gw[g].balance[world.time] = RInt(ShortfallGrowth(g))
            \/ world.gw[g].balance[world.time] = RInt(-ShortfallGrowth(g))

\* the Gateways on the path from one device to another
GatewaysBetween(source, dest) ==
    {path(source, dest)[i] : i \in {k \in 1..Len(path(source, dest)) :
                                        IsGateway(path(source, dest)[k])}}

\* C20: if a Gateway on the path between a Source or storage and a bidder
\* has export_power disabled, no transaction of any calc() step moves
\* energy from the one to the other
C20_NoTradeThroughClosedGateway ==
    \A t \in Transactions :
        \A g \in GatewaysBetween(t.source, t.dest) : export(world, g)

\* C28: over any sequence of calc() calls the counters of every Gateway
\* accumulate: lolh never goes down, the magnitude of shortfall never goes
\* down, and an outage recorded for a timestamp stays recorded
C28_CountersAccumulate ==
    [][\A g \in GatewayNodes :
           /\ RLeq(world.gw[g].lolh, world'.gw[g].lolh)
           /\ Abs(world.gw[g].shortfall) <= Abs(world'.gw[g].shortfall)
           /\ \A key \in DOMAIN world.gw[g].outage :
                  /\ key \in DOMAIN world'.gw[g].outage
                  /\ world'.gw[g].outage[key] = world.gw[g].outage[key]]_vars

\* a second step short of energy, after a first that left more unmet
C28_Witness ==
    /\ pc = "settled"
    /\ world.time = 2
    /\ \E g \in GatewayNodes :
           /\ prev.gw[g].outage # EmptyDict
           /\ DOMAIN world.gw[g].outage = {1, 2}
           /\ RLess(RInt(0), prev.gw[g].lolh)
           /\ RLess(prev.gw[g].lolh, world.gw[g].lolh)
           /\ prev.gw[g].shortfall < -1
           /\ world.gw[g].shortfall = prev.gw[g].shortfall - 1

\* the part of a load's demand of the last calc that may be shed
Droopable(n) == RMul(droopable(n), RInt(Need(n)))

\* C29 as stated: shedding only the droopable part of the demand is not an
\* outage: when every load of a Gateway is left in need of no more than
\* droopable() * its demand, the Gateway records no outage for the step and
\* adds nothing to shortfall or lolh
C29_DroopIsNoOutage ==
    pc = "settled" =>
        \A g \in GatewayNodes :
            (\A n \in children(g) \cap LoadNodes : RLeq(RInt(Unserved(n)), Droopable(n))) =>
                /\ world.time \notin DOMAIN world.gw[g].outage
                /\ ShortfallGrowth(g) = 0
                /\ LolhGrowth(g) = RInt(0)

\* the turns get_energy took for the bid of device n in the last calc
Takes(n) ==
    {i \in 1..Len(world.trace) :
        world.trace[i].kind = "take" /\ world.trace[i].bid.obj_id = n}

\* C34: the loop of get_energy ends for every bid: each transaction brings
\* the bidder's need to 0 or empties the offering device, so one bid takes
\* no more transactions than there are offering devices in the network
C34_GetEnergyTerminates ==
    /\ \A e \in Trace : e.kind = "take" => (e.need_after = 0 \/ e.has_after = 0)
    /\ \A n \in LoadNodes \cup StorageNodes :
           Cardinality(Takes(n)) <= Cardinality(SourceNodes \cup StorageNodes)
    /\ pc = "settled" =>
           \A e \in Trace : \E f \in Trace : f.kind = "stop" /\ f.bid = e.bid

\* a load that emptied every offering device of the network, one by one
C34_Witness ==
    /\ pc = "settled"
    /\ \E n \in LoadNodes :
           /\ Cardinality(Takes(n)) = 2
           /\ Cardinality(SourceNodes \cup StorageNodes) = 2
           /\ \A i \in Takes(n) : world.trace[i].has_after = 0

\* what the loads gained, the storage devices gained (net of what they
\* gave) and the sources gave in the last calc
LoadGain == Sum([n \in LoadNodes |-> world.ld[n].balance[world.time] - prev.inp.demand[n]], LoadNodes)

StorageGain == Sum([n \in StorageNodes |-> world.stg[n].state - prev.stg[n].state], StorageNodes)

SourceGiven ==
    Sum([n \in SourceNodes |-> world.src[n].generation[world.time] - world.src[n].balance[world.time]],
        SourceNodes)

\* C35: every transaction is zero-sum: after a calc() step the credits[t] of
\* all Gateways and the debits[t] of all Gateways add up to 0, and the energy
\* that went into loads and storage is the energy that left sources and
\* storage
C35_TransactionsZeroSum ==
    pc \in {"settled", "failed"} =>
        /\ Sum([g \in GatewayNodes |-> world.gw[g].credits[world.time]], GatewayNodes)
             + Sum([g \in GatewayNodes |-> world.gw[g].debits[world.time]], GatewayNodes) = 0
        /\ LoadGain + StorageGain = SourceGiven

\* a step in which one Gateway was credited from another, a storage gave
\* and a source gave
C35_Witness ==
    /\ pc = "settled"
    /\ \E t \in Transactions : t.gateway # t.source_domain /\ t.delta > 0
    /\ \E n \in StorageNodes : world.stg[n].state < prev.stg[n].state
    /\ SourceGiven > 0
    /\ LoadGain = SourceGiven - StorageGain

\* C36: settlement moves no more than the offering device holds and no more
\* than the bidder needs: over any sequence of calc() steps Source.power_io
\* never raises 'PV over commited', no load's balance of a step is positive,
\* and the surplus, shortfall and loss_occurence of every IdealStorage stay 0
C36_NoOverCommit ==
    /\ world.err # "PV over commited"
    /\ \A n \in LoadNodes : \A key \in DOMAIN world.ld[n].balance :
           world.ld[n].balance[key] <= 0
    /\ \A n \in StorageNodes :
           /\ world.stg[n].surplus = 0
           /\ world.stg[n].shortfall = 0
           /\ world.stg[n].loss_occurence = 0

\* a second step in which a source and a storage were emptied to the last
\* Wh and a load was served in full
C36_Witness ==
    /\ pc = "settled"
    /\ world.time = 2
    /\ \E n \in SourceNodes :
           world.src[n].generation[world.time] > 0 /\ world.src[n].balance[world.time] = 0
    /\ \E n \in StorageNodes : prev.stg[n].state > 0 /\ world.stg[n].state = 0
    /\ \E n \in LoadNodes : prev.inp.demand[n] < 0 /\ world.ld[n].balance[world.time] = 0

\* a load was left in need by the last calc, or a storage that bid in it
\* was left short of full
LeftWanting ==
    \/ \E n \in LoadNodes : Unserved(n) > 0
    \/ \E n \in StorageNodes :
           StartNeed(n) # 0 /\ world.stg[n].state < world.stg[n].nominal_capacity

\* C37: settlement wastes no generation: at the end of a calc() step, if a
\* load still has unmet need or a storage that bid in the step is still not
\* full, every Source of the network has nothing left for the timestamp,
\* whatever the export flags of the Gateways
C37_NoGenerationWasted ==
    (pc = "settled" /\ LeftWanting) =>
        \A n \in SourceNodes : Source_hasenergy(world, n) = 0

\* a storage behind a Gateway closed for export was filled in part by the
\* source of the other Gateway, which gave all it had
C37_Witness ==
    /\ pc = "settled"
    /\ \E g \in GatewayNodes : ~world.gw[g].export_power
    /\ \E n \in StorageNodes :
           /\ StartNeed(n) # 0
           /\ prev.stg[n].state < world.stg[n].state
           /\ world.stg[n].state < world.stg[n].nominal_capacity
    /\ \E n \in SourceNodes : world.src[n].generation[world.time] > 0
    /\ \A n \in SourceNodes : Source_hasenergy(world, n) = 0

\* every storage bids below every load, and sources sell below storage
StorageBidsLast ==
    /\ \A s \in StorageNodes : \A l \in LoadNodes : RLess(net.buy[s], net.per_kwh[l])
    /\ RLess(RInt(0), FLA_cost_kwh)

\* C38: when every storage bid is priced below every load bid and sources
\* sell below storage, no storage is both discharged and charged within one
\* calc() step: one that supplied a load receives nothing in that step
C38_NoChargeAfterDischarge ==
    StorageBidsLast =>
        \A s \in StorageNodes :
            ~\E i, j \in 1..Len(world.txlog) :
                /\ world.txlog[i].source = s
                /\ world.txlog[j].dest = s

\* a storage that was not full bid in the step, supplied a load, and was
\* given nothing when its own bid came up
C38_Witness ==
    /\ pc = "settled"
    /\ StorageBidsLast
    /\ \E s \in StorageNodes :
           /\ StartNeed(s) # 0
           /\ \E t \in Transactions : t.source = s /\ IsLoad(t.dest)
           /\ \E e \in Trace : e.kind = "stop" /\ e.bid.obj_id = s /\ e.need # 0
           /\ ~\E t \in Transactions : t.dest = s

\* the simulated time of the calc(hours) calls made so far
Elapsed == net.hours * world.time

\* C39 as stated: lolh of a Gateway is never more than the simulated time
\* elapsed, the sum of the hours of the calc calls made, also when several
\* loads of the Gateway are unmet in one step
C39_LolhWithinElapsed ==
    pc = "settled" => \A g \in GatewayNodes : RLeq(world.gw[g].lolh, RInt(Elapsed))

\* what calc leaves behind, but for the hours list of the Gateway it was
\* called on: the devices, and the books of every Gateway
Outcome(w) ==
    [ld |-> w.ld, src |-> w.src, stg |-> w.stg, err |-> w.err,
     gw |-> [g \in GatewayNodes |->
                [credits |-> w.gw[g].credits, debits |-> w.gw[g].debits,
                 balance |-> w.gw[g].balance, demand |-> w.gw[g].demand,
                 source |-> w.gw[g].source, outage |-> w.gw[g].outage,
                 shortfall |-> w.gw[g].shortfall, lolh |-> w.gw[g].lolh]]]

\* C40: calc() settles the whole connected network whichever Gateway it is
\* called on: from the same state and timestamp, the call on the root and on
\* any nested Gateway leave the same device states and the same credits,
\* debits, balance, demand, source, outage, shortfall and lolh everywhere
C40_CallerIndependent ==
    pc \in {"settled", "failed"} =>
        \A g \in GatewayNodes : Outcome(calc(prev, g, net.hours)) = Outcome(world)

\* calc called on the nested Gateway moved energy between the two Gateways,
\* and called on the root would have left the same books
C40_Witness ==
    /\ pc = "settled"
    /\ net.caller # 1
    /\ \E t \in Transactions : t.gateway # t.source_domain /\ t.delta > 0
    /\ \E g \in GatewayNodes : world.time \in DOMAIN world.gw[g].outage
    /\ Outcome(calc(prev, 1, net.hours)) = Outcome(world)

(***************************************************************************)
(* Properties of steady runs, under SpecSteady.                            *)
(***************************************************************************)
\* what the load asks for and the source puts out at every timestamp
SteadyLoad == -net.demand[2]

SteadyOutput == net.output[3]

\* C21: one Gateway, a load asking for a constant amount, a source putting
\* out a constant larger amount, no storage: after n steps the surplus is
\* n * (production - demand), the shortfall is 0 and there is no outage
C21_SteadySurplus ==
    (pc = "settled" /\ StorageNodes = {} /\ SteadyOutput > SteadyLoad) =>
        /\ Gateway_surplus(world, 1) = world.time * (SteadyOutput - SteadyLoad)
        /\ world.gw[1].shortfall = 0
        /\ Gateway_outages(world, 1) = 0
        /\ world.gw[1].outage = EmptyDict

\* load 10 Wh, source 15 Wh, 3 steps: surplus 15 Wh
C21_Witness ==
    /\ pc = "settled"
    /\ StorageNodes = {}
    /\ SteadyLoad = 10
    /\ SteadyOutput = 15
    /\ world.time = 3
    /\ Gateway_surplus(world, 1) = 15
    /\ world.gw[1].shortfall = 0

SteadyState == world.stg[4].state

\* what the full storage of the steady run can cover: the number of steps
\* before it is empty
SteadyCovered == net.capacity[4] \div (SteadyLoad - SteadyOutput)

C24_EtaZeroWithoutGeneration ==
    (pc = "settled" /\ total_gen(world, 3) = 0) =>
        /\ eta(world).err = ""
        /\ eta(world).value = RInt(0)

\* C25: when no child of the Gateway has a nameplate rating, so that STC()
\* is 0, capacity_factor() returns 0 and raises nothing
C25_CapacityFactorZeroWithoutNameplate ==
    STC(1) = 0 =>
        /\ capacity_factor(world, 1).err = ""
        /\ capacity_factor(world, 1).value = RInt(0)

\* a plant without modules, asked for its capacity factor after three steps
C25_Witness ==
    /\ pc = "settled"
    /\ world.time = 3
    /\ net.stc[3] = 0
    /\ STC(1) = 0
    /\ capacity_factor(world, 1).err = ""
    /\ capacity_factor(world, 1).value = RInt(0)

(***************************************************************************)
(* Properties of a source driven alone, under SpecSource.                  *)
(***************************************************************************)

\* C26: Source.power_io(energy) raises when |energy| is more than the
\* balance of the current timestamp holds, and then the source's balance and
\* debits are as they were: nothing is clamped, nothing partly delivered
C26_OverCommitRaisesAndChangesNothing ==
    [][(SourcePowerIO /\ Abs(arg'.energy) > world.src[2].balance[world.time]) =>
            /\ world'.err = "PV over commited"
            /\ world'.src = world.src]_vars

\* 1 Wh already drawn of 2, then 2 Wh asked of the 1 Wh left
C26_Witness ==
    /\ pc = "failed"
    /\ world.err = "PV over commited"
    /\ arg.energy = -2
    /\ Get(prev.src[2].balance, prev.time, 0) = 1
    /\ Get(prev.src[2].debits, prev.time, 0) = -1
    /\ Get(world.src[2].balance, world.time, 0) = 1
    /\ Get(world.src[2].debits, world.time, 0) = -1

(***************************************************************************)
(* Properties of Gateway.transaction called by hand, under SpecTransaction.*)
(***************************************************************************)

\* the amount a transaction moves: min(abs(dest.needsenergy()), offer.wh)
TransactionDelta == Min(Abs(Load_needsenergy(world, 2)), arg'.energy)

\* C27 as stated: a transaction whose amount is zero raises, with no
\* power_io on either device and credits, debits and balance as they were
C27_ZeroTransactionRejected ==
    [][(Transaction /\ TransactionDelta = 0) =>
            /\ world'.err # ""
            /\ world'.ld = world.ld
            /\ world'.src = world.src
            /\ world'.gw = world.gw]_vars

(***************************************************************************)
(* Properties of the construction, under SpecGraph.                        *)
(***************************************************************************)

\* the nodes that edges of a graph lead to from a set of nodes
RECURSIVE Reached(_, _)
Reached(edges, S) ==
    LET T == S \cup {n \in UNION edges : \E e \in edges : n \in e /\ e \cap S # {}}
    IN  IF T = S THEN S ELSE Reached(edges, T)

\* the graph object the root refers to
Shared == world.graphs[world.network[1]]

\* C30: once the root Gateway is constructed over a tree of devices and
\* Gateways made before it, there is one shared graph: every node of the
\* tree is a node of it, every node's network is that graph, every parent
\* and child are joined by an edge, and the graph is connected
C30_OneSharedConnectedGraph ==
    pc = "built" =>
        /\ world.network[1] # 0
        /\ Shared.nodes = 1..net.size
        /\ \A n \in 1..net.size : world.network[n] = world.network[1]
        /\ \A n \in 2..net.size : {n, net.parent[n]} \in Shared.edges
        /\ Reached(Shared.edges, {1}) = Shared.nodes

\* a root over a device and a Gateway made before it, whose own children
\* were pointed at another graph until the root merged it
C30_Witness ==
    /\ pc = "built"
    /\ net.size = 5
    /\ \E g \in 2..net.size :
           /\ net.kind[g] = "Gateway"
           /\ \E c \in 1..net.size :
                  /\ net.parent[c] = g
                  /\ prev.network[c] # 0
                  /\ prev.network[c] # world.network[c]
    /\ \A n \in 1..net.size : world.network[n] = world.network[1]
    /\ Reached(Shared.edges, {1}) = 1..net.size

(***************************************************************************)
(* Properties of the environment module, under SpecEnv.                    *)
(***************************************************************************)

\* C31 as stated: whatever update_time calls came before, reset() leaves
\* the current time cleared, the time history empty, the network reference
\* cleared and total_time 0
C31_ResetClearsAll ==
    pc = "reset" =>
        /\ world.time = 0
        /\ world.time_series = << >>
        /\ world.network = None
        /\ world.total_time = 0

====
